---- MODULE Spec2Model ----
(***************************************************************************)
(* Context memory and direct-question detection of banterbox.              *)
(*                                                                         *)
(* Two tables are modelled, context_memory (ContextEvent rows) and         *)
(* ai_responses (PriorResponse rows), together with the operations of      *)
(* PostgresContextService and IntelligentDetectionService that write,      *)
(* sweep and read them.  Every operation is an async function: it is split *)
(* at its awaits, so that the clock may advance and other callers may run  *)
(* between the JavaScript part of a call and the database statement.       *)
(* Time is in milliseconds, as Date.now() gives it.                        *)
(***************************************************************************)
EXTENDS Integers, Sequences, FiniteSets, TLC

VARIABLES
  now,            \* the wall clock, ms (Date.now() and the database NOW())
  contextMemory,  \* rows of table context_memory
  aiResponses,    \* rows of table ai_responses
  nextCtxId,      \* next id gen_random_uuid() hands to context_memory
  nextRespId,     \* next id gen_random_uuid() hands to ai_responses
  call,           \* per caller: the suspended call and its locals
  ret,            \* per caller: what its last completed call returned
  lastSweep,      \* ghost: the cleanExpiredContext delete that has just run
  detection,      \* ghost: the detectDirectQuestion call that has just
                  \* returned, its inputs and its result; <<>> if none
  retrieval,      \* ghost: the getContextForBanter call that has just
                  \* returned, its inputs and what it selected; <<>> if none
  wakeWordDetected,     \* VoiceService.wakeWordDetected
  transcriptionBuffer,  \* VoiceService.transcriptionBuffer
  audioBuffer           \* VoiceService.audioBuffer, the number of chunks held

voiceVars == <<wakeWordDetected, transcriptionBuffer, audioBuffer>>

vars == <<now, contextMemory, aiResponses, nextCtxId, nextRespId, call, ret,
          lastSweep, detection,
                 retrieval, voiceVars>>

(***************************************************************************)
(* Bounds of the model.                                                    *)
(***************************************************************************)
MaxId == 2        \* rows each table receives
MaxWindows == 2   \* the clock stops after this many retention windows

(***************************************************************************)
(* Program constants.                                                      *)
(***************************************************************************)
hoursToRetain == 72
responseHoursToRetain == 24
HourMs == 60 * 60 * 1000

Null == "null"
Omitted == "undefined"

Callers == {"a"}
Users == {"U1"}
Guilds == {Omitted}
EventTypes == {"discord_message"}
Importances == {<<>>, <<-5>>, <<0>>, <<1>>, <<7>>, <<10>>, <<11>>, <<99>>}
                     \* <<>>: the argument is omitted
Texts == {Omitted}
BanterTexts == {"Nice one, that was hilarious!"}
Latency == {0, 1}    \* ms between the caller reading Date.now() and the
                     \* database stamping NOW() on the row it inserts

Min(a, b) == IF a < b THEN a ELSE b
Max(a, b) == IF a > b THEN a ELSE b

\* of eventData only the source field is kept; recordEvent is called here
\* with an eventData that has none
NoEventData == [source |-> Omitted]

Idle == [pc |-> "idle"]
NoReturn == [op |-> "none"]
NoSweep == [ok |-> FALSE, at |-> -1, count |-> 0, second |-> FALSE]

\* the ids gen_random_uuid() yields, one per insert
ContextId(n) == "ctx-" \o ToString(n)
ResponseId(n) == "resp-" \o ToString(n)

(***************************************************************************)
(* recordEvent: importance clamp, Math.min(10, Math.max(1, importance)),   *)
(* after the default parameter value importance = 1.                       *)
(***************************************************************************)
DefaultImportance(arg) == IF arg = <<>> THEN 1 ELSE arg[1]

ClampNoFloor(importance) == Min(10, importance)

ClampImportance(importance) == Min(10, Max(1, importance))

\* guildId || null, originalMessage || null
OrNull(v) == IF v = Omitted \/ v = "" THEN Null ELSE v

\* a value an if, a ! or a ternary takes for false
Falsy(v) == v = Omitted \/ v = Null \/ v = ""

(***************************************************************************)
(* recordEvent, up to its await on the insert: expiresAt is computed from  *)
(* the caller's clock.                                                     *)
(***************************************************************************)
RecordBegin(c, userId, eventType, guildId, importance, originalMessage) ==
  /\ call[c].pc = "idle"
  /\ nextCtxId <= MaxId
  /\ call' = [call EXCEPT ![c] =
        [pc |-> "rec_insert", userId |-> userId, eventType |-> eventType,
         guildId |-> guildId, importance |-> importance,
         originalMessage |-> originalMessage,
         expiresAt |-> now + hoursToRetain * HourMs]]
  /\ UNCHANGED <<now, contextMemory, aiResponses, nextCtxId, nextRespId, ret,
                 lastSweep, detection,
                 retrieval, voiceVars>>

(***************************************************************************)
(* The insert statement runs in the database, lat ms later: created_at is  *)
(* DEFAULT NOW() of the table, id is gen_random_uuid().  A failing         *)
(* statement is caught by recordEvent, which returns 'error'.              *)
(***************************************************************************)
RecordInsert(c, ok, lat) ==
  /\ call[c].pc = "rec_insert"
  /\ IF ok
     THEN /\ now' = now + lat
          /\ contextMemory' = contextMemory \cup
               {[id |-> ContextId(nextCtxId),
                 userId |-> call[c].userId,
                 guildId |-> OrNull(call[c].guildId),
                 eventType |-> call[c].eventType,
                 eventData |-> NoEventData,
                 originalMessage |-> OrNull(call[c].originalMessage),
                 banterResponse |-> Null,
                 importance |->
                   ClampImportance(DefaultImportance(call[c].importance)),
                 createdAt |-> now',
                 expiresAt |-> call[c].expiresAt]}
          /\ nextCtxId' = nextCtxId + 1
          /\ call' = [call EXCEPT ![c] =
                [pc |-> "rec_inserted", id |-> ContextId(nextCtxId),
                 importance |-> call[c].importance]]
          /\ ret' = ret
          /\ lastSweep' = NoSweep
     ELSE /\ call' = [call EXCEPT ![c] = Idle]
          /\ ret' = [ret EXCEPT ![c] = [op |-> "recordEvent", val |-> "error"]]
          /\ UNCHANGED <<now, contextMemory, nextCtxId, lastSweep>>
  /\ UNCHANGED <<aiResponses, nextRespId, detection,
                 retrieval, voiceVars>>

(***************************************************************************)
(* recordEvent after the insert: with Math.random() < 0.1 it calls         *)
(* cleanExpiredContext (which reads new Date() and awaits the delete),     *)
(* otherwise it returns the id.                                            *)
(***************************************************************************)
RecordAfterInsert(c, rnd) ==
  /\ call[c].pc = "rec_inserted"
  /\ IF rnd
     THEN /\ call' = [call EXCEPT ![c] =
                [pc |-> "sweep_exec", cutoff |-> now, from |-> "recordEvent",
                 id |-> call[c].id]]
          /\ ret' = ret
     ELSE /\ call' = [call EXCEPT ![c] = Idle]
          /\ ret' = [ret EXCEPT ![c] = [op |-> "recordEvent", val |-> call[c].id]]
  /\ UNCHANGED <<now, contextMemory, aiResponses, nextCtxId, nextRespId,
                 lastSweep, detection,
                 retrieval, voiceVars>>

(***************************************************************************)
(* cleanExpiredContext, up to its await: the cutoff is new Date() of the   *)
(* caller.                                                                 *)
(***************************************************************************)
SweepBegin(c) ==
  /\ call[c].pc = "idle"
  /\ call' = [call EXCEPT ![c] =
        [pc |-> "sweep_exec", cutoff |-> now, from |-> "cleanExpiredContext",
         id |-> Null]]
  /\ UNCHANGED <<now, contextMemory, aiResponses, nextCtxId, nextRespId, ret,
                 lastSweep, detection,
                 retrieval, voiceVars>>

\* the rows DELETE ... WHERE expires_at < cutoff removes
ExpiredLoose(rows, cutoff) == {r \in rows : r.expiresAt <= cutoff}

\* a delete that goes by the time of creation
ExpiredByCreation(rows, cutoff) == {r \in rows : r.createdAt < cutoff}

\* a delete with the comparison turned round
ExpiredAfter(rows, cutoff) == {r \in rows : r.expiresAt > cutoff}

Expired(rows, cutoff) == {r \in rows : r.expiresAt < cutoff}

\* the delete statement of a cleanExpiredContext that lets a failing
\* statement escape: recordEvent catches it and returns 'error'
SweepExecUncaught(c, ok) ==
  /\ call[c].pc = "sweep_exec"
  /\ LET gone == IF ok THEN Expired(contextMemory, call[c].cutoff) ELSE {}
         count == Cardinality(gone)
     IN /\ contextMemory' = contextMemory \ gone
        /\ lastSweep' = [ok |-> ok, at |-> call[c].cutoff, count |-> count,
                         second |-> ok /\ lastSweep.ok
                                       /\ lastSweep.at = call[c].cutoff]
        /\ ret' = [ret EXCEPT ![c] =
              IF call[c].from = "recordEvent"
              THEN [op |-> "recordEvent",
                    val |-> IF ok THEN call[c].id ELSE "error"]
              ELSE [op |-> "cleanExpiredContext", val |-> count]]
  /\ call' = [call EXCEPT ![c] = Idle]
  /\ UNCHANGED <<now, aiResponses, nextCtxId, nextRespId, detection,
                 retrieval, voiceVars>>

(***************************************************************************)
(* The delete statement of cleanExpiredContext runs on context_memory; the *)
(* call returns result.rowCount || 0, or 0 when the statement fails.       *)
(* Called from recordEvent, its result is dropped and recordEvent returns  *)
(* the id.                                                                 *)
(***************************************************************************)
SweepExec(c, ok) ==
  /\ call[c].pc = "sweep_exec"
  /\ LET gone == IF ok THEN Expired(contextMemory, call[c].cutoff) ELSE {}
         count == Cardinality(gone)
     IN /\ contextMemory' = contextMemory \ gone
        /\ lastSweep' = [ok |-> ok, at |-> call[c].cutoff, count |-> count,
                         second |-> ok /\ lastSweep.ok
                                       /\ lastSweep.at = call[c].cutoff]
        /\ ret' = [ret EXCEPT ![c] =
              IF call[c].from = "recordEvent"
              THEN [op |-> "recordEvent", val |-> call[c].id]
              ELSE [op |-> "cleanExpiredContext", val |-> count]]
  /\ call' = [call EXCEPT ![c] = Idle]
  /\ UNCHANGED <<now, aiResponses, nextCtxId, nextRespId, detection,
                 retrieval, voiceVars>>

\* an updateContextResponse without its catch block: the failing statement
\* reaches the caller
UpdateContextResponseUncaught(c, contextId, banterResponse, ok) ==
  /\ call[c].pc = "idle"
  /\ contextMemory' =
       IF ok
       THEN {IF r.id = contextId
             THEN [r EXCEPT !.banterResponse = banterResponse]
             ELSE r : r \in contextMemory}
       ELSE contextMemory
  /\ ret' = [ret EXCEPT ![c] =
        IF ok THEN [op |-> "updateContextResponse"] ELSE [op |-> "throws"]]
  /\ UNCHANGED <<now, aiResponses, nextCtxId, nextRespId, call, lastSweep,
                 detection,
                 retrieval, voiceVars>>

(***************************************************************************)
(* updateContextResponse: one UPDATE ... SET banter_response WHERE id =    *)
(* contextId; a failing statement is caught and logged.                    *)
(***************************************************************************)
\* an update without its where clause: every row takes the response
UpdateContextResponseEverywhere(c, contextId, banterResponse, ok) ==
  /\ call[c].pc = "idle"
  /\ contextMemory' =
       IF ok
       THEN {[r EXCEPT !.banterResponse = banterResponse] : r \in contextMemory}
       ELSE contextMemory
  /\ ret' = [ret EXCEPT ![c] = [op |-> "updateContextResponse"]]
  /\ UNCHANGED <<now, aiResponses, nextCtxId, nextRespId, call, lastSweep,
                 detection,
                 retrieval, voiceVars>>

UpdateContextResponse(c, contextId, banterResponse, ok) ==
  /\ call[c].pc = "idle"
  /\ contextMemory' =
       IF ok
       THEN {IF r.id = contextId
             THEN [r EXCEPT !.banterResponse = banterResponse]
             ELSE r : r \in contextMemory}
       ELSE contextMemory
  /\ ret' = [ret EXCEPT ![c] = [op |-> "updateContextResponse"]]
  /\ UNCHANGED <<now, aiResponses, nextCtxId, nextRespId, call, lastSweep,
                 detection,
                 retrieval, voiceVars>>

(***************************************************************************)
(* recordBanterSuccess, up to its await on the select.                     *)
(***************************************************************************)
BanterSuccessBegin(c, userId, eventType, banterText, guildId) ==
  /\ call[c].pc = "idle"
  /\ call' = [call EXCEPT ![c] =
        [pc |-> "success_select", userId |-> userId, eventType |-> eventType,
         banterText |-> banterText, guildId |-> guildId]]
  /\ UNCHANGED <<now, contextMemory, aiResponses, nextCtxId, nextRespId, ret,
                 lastSweep, detection, retrieval, voiceVars>>

\* the rows recordBanterSuccess selects from: of the user, of the event
\* type, of the guild or of none when guildId is falsy, expired or not
successCandidates(table, userId, eventType, guildId) ==
  {r \in table :
     /\ r.userId = userId
     /\ r.eventType = eventType
     /\ r.guildId = (IF Falsy(guildId) THEN Null ELSE guildId)}

\* ORDER BY created_at DESC LIMIT 1: among rows of one createdAt the
\* database chooses
mostRecent(rows) ==
  {r \in rows : \A q \in rows : q.createdAt <= r.createdAt}

(***************************************************************************)
(* The select of recordBanterSuccess runs: with no row, or when it fails,  *)
(* the call returns; otherwise the update of the row found is awaited.     *)
(***************************************************************************)
BanterSuccessSelect(c, ok) ==
  /\ call[c].pc = "success_select"
  /\ LET found == mostRecent(successCandidates(contextMemory, call[c].userId,
                               call[c].eventType, call[c].guildId))
     IN IF ok /\ found # {}
        THEN /\ \E recentContext \in found :
                  call' = [call EXCEPT ![c] =
                     [pc |-> "success_update", id |-> recentContext.id,
                      banterText |-> call[c].banterText]]
             /\ ret' = ret
        ELSE /\ call' = [call EXCEPT ![c] = Idle]
             /\ ret' = [ret EXCEPT ![c] = [op |-> "recordBanterSuccess"]]
  /\ UNCHANGED <<now, contextMemory, aiResponses, nextCtxId, nextRespId,
                 lastSweep, detection, retrieval, voiceVars>>

(***************************************************************************)
(* The update of recordBanterSuccess runs, WHERE id = recentContext.id; a  *)
(* failing statement is caught and logged.                                 *)
(***************************************************************************)
BanterSuccessUpdate(c, ok) ==
  /\ call[c].pc = "success_update"
  /\ contextMemory' =
       IF ok
       THEN {IF r.id = call[c].id
             THEN [r EXCEPT !.banterResponse = call[c].banterText]
             ELSE r : r \in contextMemory}
       ELSE contextMemory
  /\ call' = [call EXCEPT ![c] = Idle]
  /\ ret' = [ret EXCEPT ![c] = [op |-> "recordBanterSuccess"]]
  /\ UNCHANGED <<now, aiResponses, nextCtxId, nextRespId, lastSweep,
                 detection, retrieval, voiceVars>>

(***************************************************************************)
(* recordResponse, up to its await: the values are {...data, expiresAt},   *)
(* so a caller-supplied expiresAt is overwritten and every other field of  *)
(* data, createdAt included, is passed on.                                 *)
(***************************************************************************)
RecordResponseBegin(c, data) ==
  /\ call[c].pc = "idle"
  /\ nextRespId <= MaxId
  /\ call' = [call EXCEPT ![c] =
        [pc |-> "resp_insert",
         values |-> [data EXCEPT !.expiresAt =
                       <<now + responseHoursToRetain * HourMs>>]]]
  /\ UNCHANGED <<now, contextMemory, aiResponses, nextCtxId, nextRespId, ret,
                 lastSweep, detection,
                 retrieval, voiceVars>>

(***************************************************************************)
(* The insert into ai_responses runs, lat ms later: created_at is DEFAULT  *)
(* NOW() unless the values carry one.  A failing statement is caught and   *)
(* logged; recordResponse returns nothing either way.                      *)
(***************************************************************************)
RecordResponseInsert(c, ok, lat) ==
  /\ call[c].pc = "resp_insert"
  /\ IF ok
     THEN /\ now' = now + lat
          /\ LET v == call[c].values
             IN aiResponses' = aiResponses \cup
                  {[id |-> ResponseId(nextRespId),
                    userId |-> v.userId,
                    guildId |-> OrNull(v.guildId),
                    responseText |-> v.responseText,
                    wasDirectQuestion |-> v.wasDirectQuestion,
                    createdAt |-> IF v.createdAt = <<>> THEN now'
                                  ELSE v.createdAt[1],
                    expiresAt |-> v.expiresAt[1]]}
          /\ nextRespId' = nextRespId + 1
          /\ lastSweep' = NoSweep
     ELSE UNCHANGED <<now, aiResponses, nextRespId, lastSweep>>
  /\ call' = [call EXCEPT ![c] = Idle]
  /\ ret' = [ret EXCEPT ![c] = [op |-> "recordResponse"]]
  /\ UNCHANGED <<contextMemory, nextCtxId, detection,
                 retrieval, voiceVars>>

(***************************************************************************)
(* cleanupExpiredResponses: DELETE FROM ai_responses WHERE expires_at <    *)
(* NOW(), the cutoff being the database clock; returns nothing.            *)
(***************************************************************************)
CleanupExpiredResponses(c, ok) ==
  /\ call[c].pc = "idle"
  /\ aiResponses' = IF ok THEN aiResponses \ Expired(aiResponses, now)
                    ELSE aiResponses
  /\ ret' = [ret EXCEPT ![c] = [op |-> "cleanupExpiredResponses"]]
  /\ UNCHANGED <<now, contextMemory, nextCtxId, nextRespId, call, lastSweep,
                 detection,
                 retrieval, voiceVars>>

(***************************************************************************)
(* The clock advances by d ms.                                             *)
(***************************************************************************)
Tick(d) ==
  /\ now + d <= MaxWindows * d + 2 * MaxId
  /\ now' = now + d
  /\ lastSweep' = NoSweep
  /\ UNCHANGED <<contextMemory, aiResponses, nextCtxId, nextRespId, call, ret,
                 detection,
                 retrieval, voiceVars>>

Init ==
  /\ now = 0
  /\ contextMemory = {}
  /\ aiResponses = {}
  /\ nextCtxId = 1
  /\ nextRespId = 1
  /\ call = [c \in Callers |-> Idle]
  /\ ret = [c \in Callers |-> NoReturn]
  /\ lastSweep = NoSweep
  /\ detection = <<>>
  /\ retrieval = <<>>
  /\ wakeWordDetected = FALSE
  /\ transcriptionBuffer = ""
  /\ audioBuffer = 0

(***************************************************************************)
(* Spec: the life of context_memory rows, recorded with the default        *)
(* importance and expiring as the clock advances window by window.         *)
(***************************************************************************)
Next ==
  \/ \E c \in Callers, u \in Users, e \in EventTypes, g \in Guilds,
        t \in Texts : RecordBegin(c, u, e, g, <<>>, t)
  \/ \E c \in Callers, ok \in BOOLEAN : RecordInsert(c, ok, 0)
  \/ \E c \in Callers, rnd \in BOOLEAN : RecordAfterInsert(c, rnd)
  \/ \E c \in Callers : SweepBegin(c)
  \/ \E c \in Callers, ok \in BOOLEAN : SweepExec(c, ok)
  \/ \E c \in Callers, n \in 1..MaxId, b \in BanterTexts, ok \in BOOLEAN :
        UpdateContextResponse(c, ContextId(n), b, ok)
  \/ Tick(hoursToRetain * HourMs)

Spec == Init /\ [][Next]_vars

(***************************************************************************)
(* SpecRecord: recordEvent on every importance argument, the insert        *)
(* reaching the database with every latency, and the response attached     *)
(* afterwards.                                                             *)
(***************************************************************************)
NextRecord ==
  \/ \E c \in Callers, u \in Users, e \in EventTypes, g \in Guilds,
        i \in Importances, t \in Texts : RecordBegin(c, u, e, g, i, t)
  \/ \E c \in Callers, ok \in BOOLEAN, lat \in Latency : RecordInsert(c, ok, lat)
  \/ \E c \in Callers, rnd \in BOOLEAN : RecordAfterInsert(c, rnd)
  \/ \E c \in Callers, ok \in BOOLEAN : SweepExec(c, ok)
  \/ \E c \in Callers, n \in 1..MaxId, b \in BanterTexts, ok \in BOOLEAN :
        UpdateContextResponse(c, ContextId(n), b, ok)

SpecRecord == Init /\ [][NextRecord]_vars

(***************************************************************************)
(* SpecResponses: the life of ai_responses rows, with the sweep of         *)
(* context_memory running beside it.                                       *)
(***************************************************************************)
ResponseData ==
  [userId : Users, guildId : Guilds,
   responseText : BanterTexts, wasDirectQuestion : {FALSE},
   createdAt : {<<>>, <<0>>},
   expiresAt : {<<>>, <<0>>}]

NextResponses ==
  \/ \E c \in Callers, d \in ResponseData : RecordResponseBegin(c, d)
  \/ \E c \in Callers, ok \in BOOLEAN, lat \in Latency :
        RecordResponseInsert(c, ok, lat)
  \/ \E c \in Callers, ok \in BOOLEAN : CleanupExpiredResponses(c, ok)
  \/ \E c \in Callers : SweepBegin(c)
  \/ \E c \in Callers, ok \in BOOLEAN : SweepExec(c, ok)
  \/ Tick(responseHoursToRetain * HourMs)

SpecResponses == Init /\ [][NextResponses]_vars

(***************************************************************************)
(* SpecCorrelate: events are recorded, a response is generated for each,   *)
(* and it is written back by id (updateContextResponse, also with the      *)
(* 'error' a failed recordEvent returned) or by recordBanterSuccess, while *)
(* the clock advances and sweeps run.                                      *)
(***************************************************************************)
\* the response generated for the event recordEvent inserted as number n
BanterFor(n) == "reply to " \o ContextId(n)

\* what recordEvent may have returned to the flow of event n
ReturnedIds(n) == {ContextId(n), "error"}

NextCorrelate ==
  \/ \E c \in Callers, u \in Users, e \in EventTypes, g \in Guilds,
        t \in Texts : RecordBegin(c, u, e, g, <<>>, t)
  \/ \E c \in Callers, ok \in BOOLEAN, lat \in Latency : RecordInsert(c, ok, lat)
  \/ \E c \in Callers, rnd \in BOOLEAN : RecordAfterInsert(c, rnd)
  \/ \E c \in Callers, ok \in BOOLEAN : SweepExec(c, ok)
  \/ \E c \in Callers, n \in 1..MaxId, ok \in BOOLEAN :
        \E id \in ReturnedIds(n) :
           UpdateContextResponse(c, id, BanterFor(n), ok)
  \/ \E c \in Callers, n \in 1..MaxId, u \in Users, e \in EventTypes,
        g \in Guilds :
        n < nextCtxId /\ BanterSuccessBegin(c, u, e, BanterFor(n), g)
  \/ \E c \in Callers, ok \in BOOLEAN : BanterSuccessSelect(c, ok)
  \/ \E c \in Callers, ok \in BOOLEAN : BanterSuccessUpdate(c, ok)
  \/ Tick(hoursToRetain * HourMs)

SpecCorrelate == Init /\ [][NextCorrelate]_vars

(***************************************************************************)
(* SpecRace: two independent callers record events and sweep, their        *)
(* statements reaching the database in any order while the clock advances. *)
(***************************************************************************)
RaceCallers == {"a", "b"}

InitRace ==
  /\ now = 0
  /\ contextMemory = {}
  /\ aiResponses = {}
  /\ nextCtxId = 1
  /\ nextRespId = 1
  /\ call = [c \in RaceCallers |-> Idle]
  /\ ret = [c \in RaceCallers |-> NoReturn]
  /\ lastSweep = NoSweep
  /\ detection = <<>>
  /\ retrieval = <<>>
  /\ wakeWordDetected = FALSE
  /\ transcriptionBuffer = ""
  /\ audioBuffer = 0

NextRace ==
  \/ \E c \in RaceCallers, u \in Users, e \in EventTypes, g \in Guilds,
        t \in Texts : RecordBegin(c, u, e, g, <<>>, t)
  \/ \E c \in RaceCallers, ok \in BOOLEAN : RecordInsert(c, ok, 0)
  \/ \E c \in RaceCallers, rnd \in BOOLEAN : RecordAfterInsert(c, rnd)
  \/ \E c \in RaceCallers : SweepBegin(c)
  \/ \E c \in RaceCallers, ok \in BOOLEAN : SweepExec(c, ok)
  \/ Tick(hoursToRetain * HourMs)

SpecRace == InitRace /\ [][NextRace]_vars

(***************************************************************************)
(* Strings, as JavaScript handles them.                                    *)
(***************************************************************************)
UpperCaseLetters == "ABCDEFGHIJKLMNOPQRSTUVWXYZ"
LowerCaseLetters == "abcdefghijklmnopqrstuvwxyz"

CharAt(s, i) == SubSeq(s, i, i)

LowerChar(ch) ==
  IF \E k \in 1..26 : CharAt(UpperCaseLetters, k) = ch
  THEN CharAt(LowerCaseLetters,
              CHOOSE k \in 1..26 : CharAt(UpperCaseLetters, k) = ch)
  ELSE ch

\* character by character, the string taken by halves
RECURSIVE toLowerCase(_)
toLowerCase(s) ==
  IF Len(s) = 0 THEN ""
  ELSE IF Len(s) = 1 THEN LowerChar(s)
       ELSE LET half == Len(s) \div 2
            IN toLowerCase(SubSeq(s, 1, half))
               \o toLowerCase(SubSeq(s, half + 1, Len(s)))

\* s.includes(t)
includes(s, t) ==
  \E i \in 0..(Len(s) - Len(t)) : SubSeq(s, i + 1, i + Len(t)) = t

Spaces == {" "}
IsSpace(ch) == ch \in Spaces

RECURSIVE trimStart(_)
trimStart(s) ==
  IF s # "" /\ IsSpace(Head(s)) THEN trimStart(Tail(s)) ELSE s

RECURSIVE trimEnd(_)
trimEnd(s) ==
  IF s # "" /\ IsSpace(CharAt(s, Len(s)))
  THEN trimEnd(SubSeq(s, 1, Len(s) - 1)) ELSE s

\* a trim of the leading whitespace alone
trimLeadingOnly(s) == trimStart(s)

trim(s) == trimEnd(trimStart(s))

(***************************************************************************)
(* s.split(sep+), sep a class of separator characters: the pieces between  *)
(* the maximal runs of separators, empty pieces at either end included.    *)
(***************************************************************************)
splitOn(s, separators) ==
  LET n == Len(s)
      isSeparator == [i \in 1..n |-> CharAt(s, i) \in separators]
      starts == SelectSeq([i \in 1..n |-> i],
                          LAMBDA i : /\ ~isSeparator[i]
                                     /\ i = 1 \/ isSeparator[i - 1])
      endOf(i) == CHOOSE j \in i..n :
                    /\ \A k \in i..j : ~isSeparator[k]
                    /\ j = n \/ isSeparator[j + 1]
      pieces == [k \in 1..Len(starts) |->
                   SubSeq(s, starts[k], endOf(starts[k]))]
  IN (IF n = 0 \/ isSeparator[1] THEN <<"">> ELSE <<>>)
     \o pieces
     \o (IF n > 0 /\ isSeparator[n] THEN <<"">> ELSE <<>>)

\* s.split(/\s+/)
splitWords(s) == splitOn(s, Spaces)

SentenceEnds == {".", "!", "?"}

\* s.split(/[.!?]+/)
splitSentences(s) == splitOn(s, SentenceEnds)

RECURSIVE join(_, _)
join(words, sep) ==
  IF words = <<>> THEN ""
  ELSE IF Len(words) = 1 THEN words[1]
       ELSE words[1] \o sep \o join(Tail(words), sep)

(***************************************************************************)
(* A regular expression without repetition is a sequence of alternations,  *)
(* each a set of literals; test(s) looks for a match at any position.      *)
(***************************************************************************)
RECURSIVE matchAt(_, _, _, _)
matchAt(s, i, pattern, k) ==
  IF k > Len(pattern) THEN TRUE
  ELSE \E alt \in pattern[k] :
          /\ i + Len(alt) - 1 <= Len(s)
          /\ SubSeq(s, i, i + Len(alt) - 1) = alt
          /\ matchAt(s, i + Len(alt), pattern, k + 1)

test(pattern, s) == \E i \in 1..(Len(s) + 1) : matchAt(s, i, pattern, 1)

\* /what (did|do) (you|banterbox) (just |recently |)<verb>/i
WhatDidYou(verb) ==
  <<{"what "}, {"did", "do"}, {" "}, {"you", "banterbox"}, {" "},
    {"just ", "recently ", ""}, {verb}>>

\* /what was (your|that|the) (a|b|c)/i
WhatWasYour(nouns) ==
  <<{"what was "}, {"your", "that", "the"}, {" "}, nouns>>

\* /what did (you|banterbox) (a|b|c) <rest>/i
WhatDidYouPlain(verbs, rest) ==
  <<{"what did "}, {"you", "banterbox"}, {" "}, verbs, {" "}, rest>>

directQuestionPatterns ==
  << WhatDidYou("say"), WhatDidYou("respond"), WhatDidYou("answer"),
     WhatDidYou("tell"), WhatDidYou("mention"),
     WhatWasYour({"response", "answer", "reply"}),
     WhatDidYouPlain({"respond", "answer", "reply"}, {"with", "to"}),
     <<{"what was "}, {"your", "that", "the"}, {" "}, {"last", "previous"},
       {" "}, {"response", "answer", "reply"}>>,
     WhatDidYou("talk about"), WhatDidYou("discuss"), WhatDidYou("mention"),
     WhatDidYou("bring up"),
     WhatDidYou("say about"), WhatDidYou("think about"),
     WhatDidYou("feel about"),
     <<{"what "}, {"just ", "recently ", ""}, {"happened"}>>,
     <<{"what was "}, {"that", "this", "it"}, {" about"}>>,
     <<{"what did "}, {"you", "banterbox"}, {" mean "},
       {"by that", "when you said"}>>,
     <<{"can you "}, {"repeat", "explain", "clarify"}, {" "},
       {"that", "what you said"}>>,
     WhatWasYour({"joke", "comment", "remark"}),
     WhatDidYouPlain({"joke", "comment", "remark"}, {"about"}),
     WhatWasYour({"opinion", "thought", "view"}),
     WhatDidYouPlain({"think", "feel", "believe"}, {"about"}) >>

\* directQuestionPatterns.some(pattern => pattern.test(lowerMessage))
matchesDirectQuestionPattern(message) ==
  LET lowerMessage == toLowerCase(message)
  IN \E p \in 1..Len(directQuestionPatterns) :
        test(directQuestionPatterns[p], lowerMessage)

\* /(just|recently|before|earlier|last|previous)/i.test(lowerMessage)
hasTemporalIndicators(message) ==
  test(<<{"just", "recently", "before", "earlier", "last", "previous"}>>,
       toLowerCase(message))

\* /\?$/.test(message.trim())
isQuestionFormat(message) ==
  LET t == trim(message) IN t # "" /\ CharAt(t, Len(t)) = "?"

(***************************************************************************)
(* The reads of detectDirectQuestion: rows of one user in one guild (or    *)
(* with no guild when guildId is falsy), created since a given time,       *)
(* newest first, at most n of them.                                        *)
(***************************************************************************)
selectRecent(table, userId, guildId, since) ==
  {r \in table :
     /\ r.userId = userId
     /\ r.guildId = (IF Falsy(guildId) THEN Null ELSE guildId)
     /\ r.createdAt >= since}

\* ORDER BY created_at DESC: rows of one createdAt come in an order the
\* database chooses
orderByCreatedAtDesc(rows) ==
  LET times == {r.createdAt : r \in rows}
      group == [t \in times |-> {r \in rows : r.createdAt = t}]
      before == [t \in times |->
                   Cardinality({r \in rows : r.createdAt > t})]
      tied == [t \in times |->
                 CHOOSE f \in [1..Cardinality(group[t]) -> group[t]] :
                   \A r \in group[t] :
                     \E i \in 1..Cardinality(group[t]) : f[i] = r]
      timeAt(p) == CHOOSE t \in times :
                     before[t] < p /\ p <= before[t] + Cardinality(group[t])
  IN [p \in 1..Cardinality(rows) |-> tied[timeAt(p)][p - before[timeAt(p)]]]

limit(rows, n) == SubSeq(rows, 1, Min(n, Len(rows)))

\* the n newest rows of the two hours before at
recentOf(table, userId, guildId, at, n) ==
  limit(orderByCreatedAtDesc(
          selectRecent(table, userId, guildId, at - 2 * HourMs)), n)

(***************************************************************************)
(* extractKeyPhrases: the three-word phrases longer than 10 characters of  *)
(* the sentences of a text, the first ten of them.                         *)
(***************************************************************************)
sentencePhrases(sentence) ==
  LET words == splitWords(trim(sentence))
      phraseAt(i) == join(SubSeq(words, i, i + 2), " ")
      starts == IF Len(words) >= 3 THEN [i \in 1..(Len(words) - 2) |-> i]
                ELSE <<>>
      kept == SelectSeq(starts, LAMBDA i : Len(phraseAt(i)) > 10)
  IN [k \in 1..Len(kept) |-> phraseAt(kept[k])]

RECURSIVE phrasesOf(_)
phrasesOf(sentences) ==
  IF sentences = <<>> THEN <<>>
  ELSE sentencePhrases(Head(sentences)) \o phrasesOf(Tail(sentences))

extractKeyPhrases(text) ==
  LET sentences == SelectSeq(splitSentences(text),
                             LAMBDA s : Len(trim(s)) > 0)
  IN limit(phrasesOf(sentences), 10)

(***************************************************************************)
(* findRelatedResponses.  The relevance of a response is kept doubled, so  *)
(* that the 0.5 a common word is worth stays an integer: a common word 1,  *)
(* a key phrase found in the message 4, an answer to a direct question 2,  *)
(* an age under half an hour 4, under an hour 2; related from 2 (1.0) on.  *)
(***************************************************************************)
SeqToSet(seq) == {seq[i] : i \in 1..Len(seq)}

\* a relevance that leaves the temporal proximity out
relevanceWithoutRecency(lowerMessage, response, at) ==
  LET responseWords == SeqToSet(splitWords(toLowerCase(response.responseText)))
      messageWords == splitWords(lowerMessage)
      commonWords == SelectSeq(messageWords,
                      LAMBDA word : Len(word) > 3 /\ word \in responseWords)
      responsePhrases == extractKeyPhrases(response.responseText)
      found == SelectSeq(responsePhrases,
                LAMBDA phrase : includes(lowerMessage, toLowerCase(phrase)))
  IN Len(commonWords)
     + 4 * Len(found)
     + (IF response.wasDirectQuestion THEN 2 ELSE 0)

relevanceDoubled(lowerMessage, response, at) ==
  LET responseWords == SeqToSet(splitWords(toLowerCase(response.responseText)))
      messageWords == splitWords(lowerMessage)
      commonWords == SelectSeq(messageWords,
                      LAMBDA word : Len(word) > 3 /\ word \in responseWords)
      responsePhrases == extractKeyPhrases(response.responseText)
      found == SelectSeq(responsePhrases,
                LAMBDA phrase : includes(lowerMessage, toLowerCase(phrase)))
      age == at - response.createdAt     \* hoursAgo, in ms
  IN Len(commonWords)
     + 4 * Len(found)
     + (IF response.wasDirectQuestion THEN 2 ELSE 0)
     + (IF 2 * age < HourMs THEN 4 ELSE IF age < HourMs THEN 2 ELSE 0)

\* related.sort((a, b) => b.createdAt.getTime() - a.createdAt.getTime()),
\* a stable sort
sortNewestFirst(rows) ==
  LET n == Len(rows)
      rank == [i \in 1..n |->
                 1 + Cardinality({j \in 1..n :
                       \/ rows[j].createdAt > rows[i].createdAt
                       \/ rows[j].createdAt = rows[i].createdAt /\ j < i})]
  IN [k \in 1..n |-> rows[CHOOSE i \in 1..n : rank[i] = k]]

findRelatedResponses(message, responses, at) ==
  LET lowerMessage == toLowerCase(message)
  IN sortNewestFirst(
       SelectSeq(responses,
                 LAMBDA r : relevanceDoubled(lowerMessage, r, at) >= 2))

(***************************************************************************)
(* hasSpecificReferences: a word of more than 4 characters of a recent     *)
(* response, or the whole original message of a recent context event,      *)
(* occurs in the message.                                                  *)
(***************************************************************************)
hasSpecificReferences(message, responses, context) ==
  LET lowerMessage == toLowerCase(message)
  IN \/ \E i \in 1..Len(responses) :
          \E word \in SeqToSet(splitWords(toLowerCase(responses[i].responseText))) :
             Len(word) > 4 /\ includes(lowerMessage, word)
     \/ \E i \in 1..Len(context) :
          /\ ~Falsy(context[i].originalMessage)
          /\ includes(lowerMessage, toLowerCase(context[i].originalMessage))

(***************************************************************************)
(* The advisory classifier.  A call to the chat completion either rejects  *)
(* (no key, network error, timeout, HTTP error) or yields a content: none, *)
(* text JSON.parse rejects, the JSON null, or a JSON object, of which the  *)
(* fields isDirectQuestion and reasoning are read.  A JavaScript value is  *)
(* a type and a representation.                                            *)
(***************************************************************************)
JsTrue == [type |-> "boolean", repr |-> "true"]
JsFalse == [type |-> "boolean", repr |-> "false"]
JsUndefined == [type |-> "undefined", repr |-> "undefined"]
JsString(s) == [type |-> "string", repr |-> s]

\* ToBoolean, as in if (openaiAnalysis.isDirectQuestion)
Truthy(v) ==
  CASE v.type = "boolean" -> v.repr = "true"
    [] v.type = "undefined" -> FALSE
    [] v.type = "string" -> v.repr # ""

JsonObject(isDirectQuestion, reasoning) ==
  [kind |-> "object", isDirectQuestion |-> isDirectQuestion,
   reasoning |-> reasoning]

AdvisoryReplies ==
  { [kind |-> "rejects"], [kind |-> "empty"], [kind |-> "unparseable"],
    [kind |-> "null"],
    JsonObject(JsTrue, "asks about the last reply"),
    JsonObject(JsFalse, "general conversation"),
    JsonObject(JsUndefined, "general conversation"),
    JsonObject(JsString("no"), "general conversation") }

\* performOpenAIAnalysis: <<>> stands for null, <<a>> for the object a
performOpenAIAnalysis(reply) ==
  IF reply.kind = "object"
  THEN <<[isDirectQuestion |-> reply.isDirectQuestion,
          reasoning |-> reply.reasoning]>>
  ELSE <<>>

(***************************************************************************)
(* The reasoning of a result is the sequence of its sentences.             *)
(***************************************************************************)
PatternNote == "Message matches direct question patterns."
RelatedNote(n) == "Found " \o ToString(n) \o " related previous responses."
ReferenceNote == "Message contains specific references to recent content."
TemporalNote ==
  "Message contains temporal indicators suggesting reference to recent events."
QuestionNote == "Message is formatted as a question."
OpenAINote(reasoning) == "OpenAI analysis: " \o reasoning
LowNote == "Overall confidence too low to classify as direct question."
FallbackNote == "(Fallback mode - database unavailable)"

Add(cond, weight) == IF cond THEN weight ELSE 0
Say(cond, note) == IF cond THEN <<note>> ELSE <<>>

\* const isDirectQuestion = confidence >= 5
isDirectQuestionAbove(confidence) == confidence > 5

isDirectQuestionAt(confidence) == confidence >= 5

\* confidence: Math.min(confidence, 10)
wrapConfidence(confidence) == confidence % 10

capConfidence(confidence) == Min(confidence, 10)

(***************************************************************************)
(* analyzeMessage, up to its await on the advisory call: the rule-based    *)
(* terms.                                                                  *)
(***************************************************************************)
scoreRules(message, recentResponses, recentContext, at) ==
  LET patternMatch == matchesDirectQuestionPattern(message)
      relatedResponses == findRelatedResponses(message, recentResponses, at)
      references == hasSpecificReferences(message, recentResponses,
                                          recentContext)
      temporal == hasTemporalIndicators(message)
      question == isQuestionFormat(message)
  IN [confidence |-> Add(patternMatch, 4)
                     + Add(relatedResponses # <<>>, 3)
                     + Add(references, 2)
                     + Add(temporal, 1)
                     + Add(question, 1),
      reasoning |-> Say(patternMatch, PatternNote)
                    \o Say(relatedResponses # <<>>,
                           RelatedNote(Len(relatedResponses)))
                    \o Say(references, ReferenceNote)
                    \o Say(temporal, TemporalNote)
                    \o Say(question, QuestionNote),
      relatedResponses |-> relatedResponses]

(***************************************************************************)
(* analyzeMessage, from the advisory analysis on: +3 when it is an object  *)
(* with a truthy isDirectQuestion, -2 when it is any other object, nothing *)
(* when it is null; then the threshold and the cap.                        *)
(***************************************************************************)
combineOpenAI(rules, openaiAnalysis) ==
  LET confidence ==
        rules.confidence
        + (IF openaiAnalysis = <<>> THEN 0
           ELSE IF Truthy(openaiAnalysis[1].isDirectQuestion) THEN 3 ELSE -2)
      isDirectQuestion == isDirectQuestionAt(confidence)
  IN [isDirectQuestion |-> isDirectQuestion,
      confidence |-> capConfidence(confidence),
      reasoning |-> rules.reasoning
                    \o (IF openaiAnalysis = <<>> THEN <<>>
                        ELSE <<OpenAINote(openaiAnalysis[1].reasoning)>>)
                    \o Say(~isDirectQuestion, LowNote),
      relatedResponses |-> rules.relatedResponses]

analyzeMessage(message, recentResponses, recentContext, reply, at) ==
  combineOpenAI(scoreRules(message, recentResponses, recentContext, at),
                performOpenAIAnalysis(reply))

\* analyzeMessageRuleBased: pattern, temporal indicator and question format
\* a rule-based analysis that gives the pattern match a weight of 5
analyzeMessageRuleBasedHeavy(message) ==
  LET patternMatch == matchesDirectQuestionPattern(message)
      temporal == hasTemporalIndicators(message)
      question == isQuestionFormat(message)
      confidence == Add(patternMatch, 5) + Add(temporal, 1) + Add(question, 1)
      isDirectQuestion == isDirectQuestionAt(confidence)
  IN [isDirectQuestion |-> isDirectQuestion,
      confidence |-> capConfidence(confidence),
      reasoning |-> Say(patternMatch, PatternNote)
                    \o Say(temporal, TemporalNote)
                    \o Say(question, QuestionNote)
                    \o Say(~isDirectQuestion, LowNote)]

analyzeMessageRuleBased(message) ==
  LET patternMatch == matchesDirectQuestionPattern(message)
      temporal == hasTemporalIndicators(message)
      question == isQuestionFormat(message)
      confidence == Add(patternMatch, 4) + Add(temporal, 1) + Add(question, 1)
      isDirectQuestion == isDirectQuestionAt(confidence)
  IN [isDirectQuestion |-> isDirectQuestion,
      confidence |-> capConfidence(confidence),
      reasoning |-> Say(patternMatch, PatternNote)
                    \o Say(temporal, TemporalNote)
                    \o Say(question, QuestionNote)
                    \o Say(~isDirectQuestion, LowNote)]

\* a DetectionResult that always responds on high confidence only
detectionResultOnConfidence(analysis) ==
  [isDirectQuestion |-> analysis.isDirectQuestion,
   confidence |-> analysis.confidence,
   reasoning |-> analysis.reasoning,
   relatedResponses |-> analysis.relatedResponses,
   shouldAlwaysRespond |-> analysis.confidence > 7]

\* detectDirectQuestion: the DetectionResult built from the analysis
detectionResult(analysis) ==
  [isDirectQuestion |-> analysis.isDirectQuestion,
   confidence |-> analysis.confidence,
   reasoning |-> analysis.reasoning,
   relatedResponses |-> analysis.relatedResponses,
   shouldAlwaysRespond |-> analysis.isDirectQuestion \/ analysis.confidence > 7]

\* detectDirectQuestion: the DetectionResult of its catch block
fallbackWithoutNote(message) ==
  LET fallbackAnalysis == analyzeMessageRuleBased(message)
  IN [isDirectQuestion |-> fallbackAnalysis.isDirectQuestion,
      confidence |-> fallbackAnalysis.confidence,
      reasoning |-> fallbackAnalysis.reasoning,
      relatedResponses |-> <<>>,
      shouldAlwaysRespond |-> fallbackAnalysis.isDirectQuestion]

fallbackResult(message) ==
  LET fallbackAnalysis == analyzeMessageRuleBased(message)
  IN [isDirectQuestion |-> fallbackAnalysis.isDirectQuestion,
      confidence |-> fallbackAnalysis.confidence,
      reasoning |-> Append(fallbackAnalysis.reasoning, FallbackNote),
      relatedResponses |-> <<>>,
      shouldAlwaysRespond |-> fallbackAnalysis.isDirectQuestion]

(***************************************************************************)
(* detectDirectQuestion is called: the call awaits its first select.       *)
(***************************************************************************)
DetectBegin(c, userId, guildId, currentMessage) ==
  /\ call[c].pc = "idle"
  /\ call' = [call EXCEPT ![c] =
        [pc |-> "det_select", userId |-> userId, guildId |-> guildId,
         currentMessage |-> currentMessage]]
  /\ ret' = [ret EXCEPT ![c] = NoReturn]
  /\ detection' = <<>>
  /\ UNCHANGED <<now, contextMemory, aiResponses, nextCtxId, nextRespId,
                 lastSweep, retrieval, voiceVars>>

(***************************************************************************)
(* The two selects run: the ten newest responses and the five newest       *)
(* context events of the last two hours, on which the rule-based terms are *)
(* computed before the advisory call is awaited.  When the database is     *)
(* absent or a select fails, the catch block returns the rule-based        *)
(* analysis of the message alone.                                          *)
(***************************************************************************)
DetectSelect(c, ok) ==
  /\ call[c].pc = "det_select"
  /\ LET recentResponses ==
           recentOf(aiResponses, call[c].userId, call[c].guildId, now, 10)
         recentContext ==
           recentOf(contextMemory, call[c].userId, call[c].guildId, now, 5)
     IN IF ok
        THEN /\ call' = [call EXCEPT ![c] =
                   [pc |-> "det_openai",
                    currentMessage |-> call[c].currentMessage,
                    rules |-> scoreRules(call[c].currentMessage,
                                         recentResponses, recentContext, now)]]
             /\ UNCHANGED <<ret, detection,
                 retrieval, voiceVars>>
        ELSE LET result == fallbackResult(call[c].currentMessage)
             IN /\ call' = [call EXCEPT ![c] = Idle]
                /\ ret' = [ret EXCEPT ![c] =
                      [op |-> "detectDirectQuestion", val |-> result]]
                /\ detection' =
                     <<[currentMessage |-> call[c].currentMessage,
                        storage |-> FALSE, openaiCalls |-> 0,
                        reply |-> <<>>, rules |-> <<>>, result |-> result]>>
  /\ UNCHANGED <<now, contextMemory, aiResponses, nextCtxId, nextRespId,
                 lastSweep, retrieval, voiceVars>>

(***************************************************************************)
(* The advisory call settles with a reply, and detectDirectQuestion        *)
(* returns.                                                                *)
(***************************************************************************)
DetectOpenAI(c, reply) ==
  /\ call[c].pc = "det_openai"
  /\ LET result == detectionResult(
                     combineOpenAI(call[c].rules, performOpenAIAnalysis(reply)))
     IN /\ ret' = [ret EXCEPT ![c] =
              [op |-> "detectDirectQuestion", val |-> result]]
        /\ detection' =
             <<[currentMessage |-> call[c].currentMessage,
                storage |-> TRUE, openaiCalls |-> 1,
                reply |-> <<reply>>, rules |-> <<call[c].rules>>,
                result |-> result]>>
  /\ call' = [call EXCEPT ![c] = Idle]
  /\ UNCHANGED <<now, contextMemory, aiResponses, nextCtxId, nextRespId,
                 lastSweep, retrieval, voiceVars>>

(***************************************************************************)
(* SpecDetect: detectDirectQuestion on a store that recordResponse and     *)
(* recordEvent have filled some time before.                               *)
(***************************************************************************)
MinuteMs == 60 * 1000
DetectNow == 3 * HourMs

TopicalText == "hello again, stop kidding about things which happened today"

Messages ==
  { "hello there", "hello there?", "just kidding", "just kidding?",
    "what was that about", "what was that about?",
    "What just happened", "what just happened?",
    "you said stop kidding about things" }

\* a row recordResponse inserted age ms ago
PriorResponse(n, responseText, wasDirectQuestion, age) ==
  [id |-> ResponseId(n), userId |-> "U1", guildId |-> Null,
   responseText |-> responseText, wasDirectQuestion |-> wasDirectQuestion,
   createdAt |-> DetectNow - age,
   expiresAt |-> DetectNow - age + responseHoursToRetain * HourMs]

\* a row recordEvent inserted age ms ago
ContextEvent(n, originalMessage, age) ==
  [id |-> ContextId(n), userId |-> "U1", guildId |-> Null,
   eventType |-> "discord_message", eventData |-> NoEventData,
   originalMessage |-> originalMessage,
   banterResponse |-> Null, importance |-> 1,
   createdAt |-> DetectNow - age,
   expiresAt |-> DetectNow - age + hoursToRetain * HourMs]

Store(responses, events) == [aiResponses |-> responses, contextMemory |-> events]

DetectStores ==
  LET Nice == "Nice one, that was hilarious!"
  IN { Store({}, {}),
       Store({PriorResponse(1, Nice, FALSE, 10 * MinuteMs)}, {}),
       Store({PriorResponse(1, TopicalText, FALSE, 90 * MinuteMs)}, {}),
       Store({PriorResponse(1, TopicalText, FALSE, 10 * MinuteMs)}, {}),
       Store({PriorResponse(1, TopicalText, FALSE, 150 * MinuteMs)}, {}),
       Store({PriorResponse(1, Nice, TRUE, 90 * MinuteMs),
              PriorResponse(2, Nice, FALSE, 45 * MinuteMs)}, {}),
       Store({}, {ContextEvent(1, "Hello there", 10 * MinuteMs),
                  ContextEvent(2, Null, 5 * MinuteMs)}) }

InitDetect ==
  /\ now = DetectNow
  /\ \E s \in DetectStores :
        /\ aiResponses = s.aiResponses
        /\ contextMemory = s.contextMemory
        /\ nextRespId = Cardinality(s.aiResponses) + 1
        /\ nextCtxId = Cardinality(s.contextMemory) + 1
  /\ call = [c \in Callers |-> Idle]
  /\ ret = [c \in Callers |-> NoReturn]
  /\ lastSweep = NoSweep
  /\ detection = <<>>
  /\ retrieval = <<>>
  /\ wakeWordDetected = FALSE
  /\ transcriptionBuffer = ""
  /\ audioBuffer = 0

NextDetect ==
  \/ \E c \in Callers, u \in Users, g \in Guilds, m \in Messages :
        DetectBegin(c, u, g, m)
  \/ \E c \in Callers, ok \in BOOLEAN : DetectSelect(c, ok)
  \/ \E c \in Callers, reply \in AdvisoryReplies : DetectOpenAI(c, reply)

SpecDetect == InitDetect /\ [][NextDetect]_vars

(***************************************************************************)
(* getContextForBanterInternal.  The select: the 50 newest rows of the     *)
(* user that the cutoff, new Date() of the caller, is before the expiry    *)
(* of.                                                                     *)
(***************************************************************************)
ContextLimit == 50

\* a select that leaves out the condition on the user
selectUnexpiredOfAnyone(table, userId, cutoff) ==
  {r \in table : cutoff < r.expiresAt}

\* a select that keeps the rows expiring at the instant of the call
selectUnexpiredLoose(table, userId, cutoff) ==
  {r \in table : r.userId = userId /\ cutoff <= r.expiresAt}

selectUnexpired(table, userId, cutoff) ==
  {r \in table : r.userId = userId /\ cutoff < r.expiresAt}

recentContextOf(table, userId, cutoff) ==
  limit(orderByCreatedAtDesc(selectUnexpired(table, userId, cutoff)),
        ContextLimit)

\* ctx.eventType === 'voice_message' || ctx.eventData.source === 'voice'
isVoice(ctx) ==
  ctx.eventType = "voice_message" \/ ctx.eventData.source = "voice"

isText(ctx) == ~isVoice(ctx)

\* prioritizeVoice: [...voiceContext, ...textContext]
voiceFirst(recentContext) ==
  SelectSeq(recentContext, isVoice) \o SelectSeq(recentContext, isText)

(***************************************************************************)
(* Math.random() is drawn in tenths; Below(draw, t) is Math.random() <     *)
(* t / 10.                                                                 *)
(***************************************************************************)
RandomDraws == {1, 5, 7, 9}

Below(draw, tenths) == draw < tenths

\* shouldUseContextForEvent of the earlier definition of the class, which
\* getContextForDirectQuestions belongs to
shouldUseContextForEventV1(eventType, contextCount, draw) ==
  IF eventType = "discord_message" /\ contextCount > 20 THEN Below(draw, 3)
  ELSE IF eventType \in {"subscription", "donation", "raid"} THEN TRUE
       ELSE Below(draw, 7)

\* shouldUseContextForEvent of the later definition
shouldUseContextForEvent(eventType, contextCount, draw) ==
  IF eventType \in {"subscription", "donation", "raid"} THEN TRUE
  ELSE IF eventType = "discord_message"
       THEN IF contextCount > 0 THEN Below(draw, 8) ELSE Below(draw, 6)
       ELSE Below(draw, 8)

(***************************************************************************)
(* shouldUseContextWithAI: the advisory call either rejects, and the       *)
(* static policy is asked about a 'discord_message', or yields a content   *)
(* (none, or a text), which is trimmed, upper-cased and compared with      *)
(* 'YES'.                                                                  *)
(***************************************************************************)
UpperChar(ch) ==
  IF \E k \in 1..26 : CharAt(LowerCaseLetters, k) = ch
  THEN CharAt(UpperCaseLetters,
              CHOOSE k \in 1..26 : CharAt(LowerCaseLetters, k) = ch)
  ELSE ch

RECURSIVE toUpperCase(_)
toUpperCase(s) ==
  IF Len(s) = 0 THEN ""
  ELSE IF Len(s) = 1 THEN UpperChar(s)
       ELSE LET half == Len(s) \div 2
            IN toUpperCase(SubSeq(s, 1, half))
               \o toUpperCase(SubSeq(s, half + 1, Len(s)))

UseContextReplies ==
  { [kind |-> "rejects"],
    [kind |-> "content", content |-> Omitted],
    [kind |-> "content", content |-> "YES"],
    [kind |-> "content", content |-> " yes "],
    [kind |-> "content", content |-> "NO"],
    [kind |-> "content", content |-> "Yes, it needs context"] }

shouldUseContextWithAI(recentContext, reply, draw) ==
  IF reply.kind = "rejects"
  THEN shouldUseContextForEvent("discord_message", Len(recentContext), draw)
  ELSE /\ reply.content # Omitted
       /\ toUpperCase(trim(reply.content)) = "YES"

(***************************************************************************)
(* The context string, as the sequence of its lines ('' is <<>>).          *)
(***************************************************************************)
slice(rows, n) == SubSeq(rows, 1, Min(n, Len(rows)))

\* a substring that cuts nothing
wholeString(s, n) == s

substring(s, n) == SubSeq(s, 1, Min(n, Len(s)))

\* a guild filter that lets every row through
inAnyGuild(ctx, guildId) == TRUE

inGuild(ctx, guildId) ==
  IF Falsy(guildId) THEN Falsy(ctx.guildId) ELSE ctx.guildId = guildId

isGlobal(ctx) == Falsy(ctx.guildId)

\* [...guildContext, ...globalContext], sorted newest first, the first 4
combinedContextOf(processedContext, guildId) ==
  LET guildContext ==
        SelectSeq(processedContext, LAMBDA ctx : inGuild(ctx, guildId))
      globalContext ==
        IF Falsy(guildId) THEN <<>> ELSE SelectSeq(processedContext, isGlobal)
  IN slice(sortNewestFirst(guildContext \o globalContext), 4)

\* the rows of the current event type in the guild or in none, sorted
\* newest first, the first 2
similarContextOf(processedContext, currentEventType, guildId) ==
  slice(sortNewestFirst(
          SelectSeq(processedContext,
                    LAMBDA ctx : /\ ctx.eventType = currentEventType
                                 /\ inGuild(ctx, guildId) \/ isGlobal(ctx))),
        2)

hasMessage(ctx) ==
  ~Falsy(ctx.originalMessage) /\ Len(ctx.originalMessage) > 5

hasResponse(ctx) ==
  ~Falsy(ctx.banterResponse) /\ Len(ctx.banterResponse) > 10

recentMessagesOf(combinedContext) ==
  slice(SelectSeq(combinedContext, hasMessage), 3)

\* Math.random() is drawn only when similarContext is not empty
uniqueResponsesOf(similarContext, draw) ==
  IF Len(similarContext) > 0 /\ Below(draw, 2)
  THEN slice(SelectSeq(similarContext, hasResponse), 1)
  ELSE <<>>

MessageLine(ctx) == "- " \o substring(ctx.originalMessage, 100)
ResponseLine(ctx) == "- \"" \o substring(ctx.banterResponse, 80) \o "\""

InstructionLine ==
  "Use this context for natural conversation flow, but keep responses fresh and varied. Don't repeat the same phrases or references too often."

\* a formatting that appends the instruction whatever was listed
contextStringAlways(recentMessages, uniqueResponses) ==
  LET body ==
        (IF recentMessages = <<>> THEN <<>>
         ELSE <<"Recent conversation:">>
              \o [i \in 1..Len(recentMessages) |-> MessageLine(recentMessages[i])]
              \o <<"">>)
        \o (IF uniqueResponses = <<>> THEN <<>>
            ELSE <<"Previous response example:">>
                 \o [i \in 1..Len(uniqueResponses) |->
                       ResponseLine(uniqueResponses[i])]
                 \o <<"">>)
  IN Append(body, InstructionLine)

contextStringOf(recentMessages, uniqueResponses) ==
  LET body ==
        (IF recentMessages = <<>> THEN <<>>
         ELSE <<"Recent conversation:">>
              \o [i \in 1..Len(recentMessages) |-> MessageLine(recentMessages[i])]
              \o <<"">>)
        \o (IF uniqueResponses = <<>> THEN <<>>
            ELSE <<"Previous response example:">>
                 \o [i \in 1..Len(uniqueResponses) |->
                       ResponseLine(uniqueResponses[i])]
                 \o <<"">>)
  IN IF body = <<>> THEN <<>> ELSE Append(body, InstructionLine)

(***************************************************************************)
(* The rest of getContextForBanterInternal once the use-context decision   *)
(* is taken: '' when it is to skip, the context string otherwise.  The     *)
(* call returns, and retrieval keeps what it read and selected.            *)
(***************************************************************************)
GetContextReturn(c, shouldUseContext, decidedBy, processedContext, draw) ==
  LET combinedContext == combinedContextOf(processedContext, call[c].guildId)
      similarContext ==
        similarContextOf(processedContext, call[c].currentEventType,
                         call[c].guildId)
      recentMessages ==
        IF shouldUseContext THEN recentMessagesOf(combinedContext) ELSE <<>>
      uniqueResponses ==
        IF shouldUseContext THEN uniqueResponsesOf(similarContext, draw)
        ELSE <<>>
      contextString == contextStringOf(recentMessages, uniqueResponses)
  IN /\ ret' = [ret EXCEPT ![c] = [op |-> call[c].entry, val |-> contextString]]
     /\ retrieval' =
          <<[entry |-> call[c].entry, userId |-> call[c].userId,
             currentEventType |-> call[c].currentEventType,
             guildId |-> call[c].guildId,
             currentMessage |-> call[c].currentMessage,
             cutoff |-> call[c].cutoff, storage |-> TRUE,
             processedContext |-> processedContext,
             shouldUseContext |-> shouldUseContext, decidedBy |-> decidedBy,
             recentMessages |-> recentMessages,
             uniqueResponses |-> uniqueResponses,
             contextString |-> contextString]>>
     /\ call' = [call EXCEPT ![c] = Idle]

(***************************************************************************)
(* getContextForBanter (with a current message, the later definition) or   *)
(* getContextForDirectQuestions (prioritizeVoice, the earlier definition)  *)
(* is called: the select is built with new Date() and awaited.             *)
(***************************************************************************)
GetContextBegin(c, entry, userId, currentEventType, guildId, currentMessage) ==
  /\ call[c].pc = "idle"
  /\ entry = "getContextForDirectQuestions" => currentMessage = Omitted
  /\ call' = [call EXCEPT ![c] =
        [pc |-> "ctx_select", entry |-> entry, userId |-> userId,
         currentEventType |-> currentEventType, guildId |-> guildId,
         currentMessage |-> currentMessage, cutoff |-> now]]
  /\ ret' = [ret EXCEPT ![c] = NoReturn]
  /\ retrieval' = <<>>
  /\ UNCHANGED <<now, contextMemory, aiResponses, nextCtxId, nextRespId,
                 lastSweep, detection, voiceVars>>

(***************************************************************************)
(* The select runs.  When it fails the catch block returns ''.  Otherwise  *)
(* getContextForDirectQuestions puts the voice rows first, and the         *)
(* use-context decision is taken: by the advisory call, which is awaited,  *)
(* when there is a current message and a row, by the static policy on the  *)
(* event type otherwise.                                                   *)
(***************************************************************************)
GetContextSelect(c, ok, draw, drawSimilar) ==
  /\ call[c].pc = "ctx_select"
  /\ LET recentContext ==
           recentContextOf(contextMemory, call[c].userId, call[c].cutoff)
         processedContext ==
           IF call[c].entry = "getContextForDirectQuestions"
           THEN voiceFirst(recentContext) ELSE recentContext
     IN IF ~ok
        THEN /\ ret' = [ret EXCEPT ![c] = [op |-> call[c].entry, val |-> <<>>]]
             /\ retrieval' =
                  <<[entry |-> call[c].entry, userId |-> call[c].userId,
                     currentEventType |-> call[c].currentEventType,
                     guildId |-> call[c].guildId,
                     currentMessage |-> call[c].currentMessage,
                     cutoff |-> call[c].cutoff, storage |-> FALSE,
                     processedContext |-> <<>>,
                     shouldUseContext |-> FALSE, decidedBy |-> "catch",
                     recentMessages |-> <<>>, uniqueResponses |-> <<>>,
                     contextString |-> <<>>]>>
             /\ call' = [call EXCEPT ![c] = Idle]
        ELSE IF /\ call[c].entry = "getContextForBanter"
                /\ ~Falsy(call[c].currentMessage)
                /\ Len(processedContext) > 0
             THEN /\ call' = [call EXCEPT ![c] =
                        [call[c] EXCEPT !.pc = "ctx_openai"]
                          @@ [processedContext |-> processedContext]]
                  /\ UNCHANGED <<ret, retrieval, voiceVars>>
             ELSE GetContextReturn(c,
                    IF call[c].entry = "getContextForDirectQuestions"
                    THEN shouldUseContextForEventV1(call[c].currentEventType,
                                                    Len(processedContext), draw)
                    ELSE shouldUseContextForEvent(call[c].currentEventType,
                                                  Len(processedContext), draw),
                    "shouldUseContextForEvent", processedContext, drawSimilar)
  /\ UNCHANGED <<now, contextMemory, aiResponses, nextCtxId, nextRespId,
                 lastSweep, detection, voiceVars>>

(***************************************************************************)
(* The advisory call of shouldUseContextWithAI settles.                    *)
(***************************************************************************)
GetContextOpenAI(c, reply, draw, drawSimilar) ==
  /\ call[c].pc = "ctx_openai"
  /\ GetContextReturn(c,
       shouldUseContextWithAI(call[c].processedContext, reply, draw),
       IF reply.kind = "rejects" THEN "shouldUseContextWithAI catch"
       ELSE "shouldUseContextWithAI",
       call[c].processedContext, drawSimilar)
  /\ UNCHANGED <<now, contextMemory, aiResponses, nextCtxId, nextRespId,
                 lastSweep, detection, voiceVars>>

(***************************************************************************)
(* SpecRetrieve: getContextForBanter and getContextForDirectQuestions on a *)
(* context_memory that recordEvent and updateContextResponse have filled   *)
(* some time before.                                                       *)
(***************************************************************************)
RetrieveNow == 100 * HourMs

LongMessage ==
  "This is a very long message about the stream that goes on and on, well past the one hundred characters the context string keeps of it"
LongResponse ==
  "What a generous subscription, thank you so much for supporting the channel all these months, friend!"

\* a row recordEvent inserted age ms ago
StoredEvent(n, userId, guildId, eventType, source, originalMessage, banterResponse, age) ==
  [id |-> ContextId(n), userId |-> userId, guildId |-> guildId,
   eventType |-> eventType, eventData |-> [source |-> source],
   originalMessage |-> originalMessage, banterResponse |-> banterResponse,
   importance |-> 1,
   createdAt |-> RetrieveNow - age,
   expiresAt |-> RetrieveNow - age + hoursToRetain * HourMs]

Chat(n, userId, guildId, originalMessage, age) ==
  StoredEvent(n, userId, guildId, "discord_message", Omitted, originalMessage,
              Null, age)

\* three events of a conversation about a car
CarStore ==
  { Chat(1, "U1", Null, "I'm thinking about a red car", 3 * MinuteMs),
    Chat(2, "U1", Null, "What color?", 2 * MinuteMs),
    Chat(3, "U1", Null, "Probably red", 1 * MinuteMs) }

\* two users, two guilds, and rows past or at their expiry that no sweep
\* has removed
ScopeStore ==
  { Chat(1, "U1", "G1", "message in guild one", 1 * HourMs),
    Chat(2, "U1", Null, "message in no guild", 2 * HourMs),
    Chat(3, "U1", "G2", "message in guild two", 3 * HourMs),
    Chat(4, "U2", "G1", "message of another user", 30 * MinuteMs),
    Chat(5, "U2", Null, "another user in no guild", 40 * MinuteMs),
    Chat(6, "U1", Null, "expiring at this instant", hoursToRetain * HourMs),
    Chat(7, "U1", "G1", "expired hours ago", 80 * HourMs),
    Chat(8, "U1", Null, "about to expire", hoursToRetain * HourMs - 1) }

\* the four newest rows are typed, the two oldest are spoken
VoiceStore ==
  { Chat(1, "U1", Null, "typed message one", 1 * MinuteMs),
    Chat(2, "U1", Null, "typed message two", 2 * MinuteMs),
    Chat(3, "U1", Null, "typed message three", 3 * MinuteMs),
    Chat(4, "U1", Null, "typed message four", 4 * MinuteMs),
    StoredEvent(5, "U1", Null, "voice_message", Omitted,
                "spoken message five", Null, 5 * MinuteMs),
    StoredEvent(6, "U1", Null, "discord_message", "voice",
                "spoken message six", Null, 6 * MinuteMs) }

\* short and long messages, trivial and long responses
LengthStore ==
  { StoredEvent(1, "U1", Null, "discord_message", Omitted, "hi!!!", "ok",
                1 * MinuteMs),
    StoredEvent(2, "U1", Null, "subscription", Omitted, LongMessage,
                LongResponse, 2 * MinuteMs),
    StoredEvent(3, "U1", Null, "discord_message", Omitted, "hello everyone",
                Null, 3 * MinuteMs),
    StoredEvent(4, "U1", Null, "subscription", Omitted, Null,
                "Welcome aboard, subscriber!", 4 * MinuteMs),
    StoredEvent(5, "U1", Null, "discord_message", Omitted, "good evening",
                "A perfectly good reply", 5 * MinuteMs),
    StoredEvent(6, "U1", Null, "subscription", Omitted, "subscribed again",
                "Thanks once more!", 6 * MinuteMs) }

\* more rows than the select returns: the 50 newest are of guild G2, the
\* two oldest of no guild
FullStore ==
  { Chat(n, "U1", "G2", "message in guild two", (53 - n) * MinuteMs) :
      n \in 3..(ContextLimit + 2) }
  \cup { Chat(1, "U1", Null, "the oldest message", 52 * MinuteMs),
         Chat(2, "U1", Null, "the second oldest message", 51 * MinuteMs) }

\* rows in scope none of which has a message worth listing, and only the
\* subscription a response
QuietStore ==
  { StoredEvent(1, "U1", Null, "discord_message", Omitted, "ok", "thanks",
                1 * MinuteMs),
    StoredEvent(2, "U1", Null, "subscription", Omitted, Null,
                "Welcome to the club!", 2 * MinuteMs) }

RetrieveStores ==
  { {}, CarStore, ScopeStore, VoiceStore, LengthStore, FullStore, QuietStore }

RetrieveUsers == {"U1", "U2"}
RetrieveGuilds == {Omitted, "G1"}
RetrieveEventTypes == {"discord_message", "subscription", "voice_message"}
CarQuestion == "what car was I thinking about?"
RetrieveMessages == {Omitted, CarQuestion}
RetrieveEntries == {"getContextForBanter", "getContextForDirectQuestions"}

InitRetrieve ==
  /\ now = RetrieveNow
  /\ contextMemory \in RetrieveStores
  /\ aiResponses = {}
  /\ nextCtxId = Cardinality(contextMemory) + 1
  /\ nextRespId = 1
  /\ call = [c \in Callers |-> Idle]
  /\ ret = [c \in Callers |-> NoReturn]
  /\ lastSweep = NoSweep
  /\ detection = <<>>
  /\ retrieval = <<>>
  /\ wakeWordDetected = FALSE
  /\ transcriptionBuffer = ""
  /\ audioBuffer = 0

NextRetrieve ==
  \/ \E c \in Callers, e \in RetrieveEntries, u \in RetrieveUsers,
        t \in RetrieveEventTypes, g \in RetrieveGuilds,
        m \in RetrieveMessages : GetContextBegin(c, e, u, t, g, m)
  \/ \E c \in Callers, ok \in BOOLEAN, d1 \in RandomDraws,
        d2 \in RandomDraws : GetContextSelect(c, ok, d1, d2)
  \/ \E c \in Callers, reply \in UseContextReplies, d1 \in RandomDraws,
        d2 \in RandomDraws : GetContextOpenAI(c, reply, d1, d2)

SpecRetrieve == InitRetrieve /\ [][NextRetrieve]_vars

(***************************************************************************)
(* SpecOutage: every operation that reaches the database, on a store with  *)
(* rows of two users and an expired row, each statement succeeding or      *)
(* failing.                                                                *)
(***************************************************************************)
InitOutage ==
  /\ now = RetrieveNow
  /\ contextMemory = ScopeStore
  /\ aiResponses = {}
  /\ nextCtxId = Cardinality(ScopeStore) + 1
  /\ nextRespId = 1
  /\ call = [c \in Callers |-> Idle]
  /\ ret = [c \in Callers |-> NoReturn]
  /\ lastSweep = NoSweep
  /\ detection = <<>>
  /\ retrieval = <<>>
  /\ wakeWordDetected = FALSE
  /\ transcriptionBuffer = ""
  /\ audioBuffer = 0

NextOutage ==
  \/ \E c \in Callers, e \in RetrieveEntries, m \in RetrieveMessages :
        GetContextBegin(c, e, "U1", "discord_message", Omitted, m)
  \/ \E c \in Callers, ok \in BOOLEAN, d \in RandomDraws :
        GetContextSelect(c, ok, d, d)
  \/ \E c \in Callers, reply \in UseContextReplies, d \in RandomDraws :
        GetContextOpenAI(c, reply, d, d)
  \/ \E c \in Callers : SweepBegin(c)
  \/ \E c \in Callers, ok \in BOOLEAN : SweepExec(c, ok)
  \/ \E c \in Callers, n \in 1..MaxId, b \in BanterTexts, ok \in BOOLEAN :
        UpdateContextResponse(c, ContextId(n), b, ok)
  \/ \E c \in Callers, d \in ResponseData : RecordResponseBegin(c, d)
  \/ \E c \in Callers, ok \in BOOLEAN : RecordResponseInsert(c, ok, 0)

SpecOutage == InitOutage /\ [][NextOutage]_vars

(***************************************************************************)
(* SpecCar: the conversation about a car has been recorded, no response    *)
(* has; the question about it is given to detectDirectQuestion, and the    *)
(* context is retrieved through either entry.                              *)
(***************************************************************************)
InitCar ==
  /\ now = RetrieveNow
  /\ contextMemory = CarStore
  /\ aiResponses = {}
  /\ nextCtxId = Cardinality(CarStore) + 1
  /\ nextRespId = 1
  /\ call = [c \in Callers |-> Idle]
  /\ ret = [c \in Callers |-> NoReturn]
  /\ lastSweep = NoSweep
  /\ detection = <<>>
  /\ retrieval = <<>>
  /\ wakeWordDetected = FALSE
  /\ transcriptionBuffer = ""
  /\ audioBuffer = 0

NextCar ==
  \/ \E c \in Callers : DetectBegin(c, "U1", Omitted, CarQuestion)
  \/ \E c \in Callers, ok \in BOOLEAN : DetectSelect(c, ok)
  \/ \E c \in Callers, reply \in AdvisoryReplies : DetectOpenAI(c, reply)
  \/ \E c \in Callers, e \in RetrieveEntries, m \in RetrieveMessages :
        GetContextBegin(c, e, "U1", "discord_message", Omitted, m)
  \/ \E c \in Callers, ok \in BOOLEAN, d1 \in RandomDraws,
        d2 \in RandomDraws : GetContextSelect(c, ok, d1, d2)
  \/ \E c \in Callers, reply \in UseContextReplies, d1 \in RandomDraws,
        d2 \in RandomDraws : GetContextOpenAI(c, reply, d1, d2)

SpecCar == InitCar /\ [][NextCar]_vars

(***************************************************************************)
(* C1: every ContextEvent stored by recordEvent has                        *)
(* expiresAt - createdAt = 72h exactly, in every state of the record.      *)
(***************************************************************************)
C1_ContextRetention ==
  \A r \in contextMemory : r.expiresAt - r.createdAt = hoursToRetain * HourMs

(***************************************************************************)
(* C2: every PriorResponse stored by recordResponse has                    *)
(* expiresAt - createdAt = 24h exactly, whatever the caller supplies.      *)
(***************************************************************************)
C2_ResponseRetention ==
  \A r \in aiResponses :
     r.expiresAt - r.createdAt = responseHoursToRetain * HourMs

(***************************************************************************)
(* C3: a cleanExpiredContext whose delete statement runs removes exactly   *)
(* the context_memory rows with expiresAt < the time of the call, returns  *)
(* their number, and, run again right after a sweep of the same time with  *)
(* no insert in between, removes nothing and returns 0.                    *)
(***************************************************************************)
C3_SweepExact ==
  [][\A c \in Callers :
       (call[c].pc = "sweep_exec" /\ call'[c].pc = "idle" /\ lastSweep'.ok) =>
         /\ contextMemory' =
              {r \in contextMemory : ~(r.expiresAt < call[c].cutoff)}
         /\ lastSweep'.count =
              Cardinality(contextMemory) - Cardinality(contextMemory')
         /\ (call[c].from = "cleanExpiredContext" =>
               ret'[c] = [op |-> "cleanExpiredContext",
                          val |-> lastSweep'.count])
         /\ ((lastSweep.ok /\ lastSweep.at = call[c].cutoff) =>
               /\ contextMemory' = contextMemory
               /\ lastSweep'.count = 0)]_vars

\* a second sweep has just run, after a sweep that removed a row and kept one
C3_Witness ==
  /\ lastSweep.ok /\ lastSweep.second
  /\ contextMemory # {}
  /\ Cardinality(contextMemory) < nextCtxId - 1
  /\ \E c \in Callers : ret[c] = [op |-> "cleanExpiredContext", val |-> 0]

(***************************************************************************)
(* C4: right after a sweep no row of either table with expiresAt earlier   *)
(* than the sweep time remains.                                            *)
(***************************************************************************)
C4_SweepBothKinds ==
  lastSweep.ok =>
    /\ \A r \in contextMemory : ~(r.expiresAt < lastSweep.at)
    /\ \A r \in aiResponses : ~(r.expiresAt < lastSweep.at)

(***************************************************************************)
(* C5: the importance recordEvent stores is within 1..10: an argument      *)
(* below 1 is stored as 1, one above 10 as 10, one within 1..10 unchanged, *)
(* an omitted one as 1.                                                    *)
(***************************************************************************)
C5_ImportanceClamped ==
  /\ \A r \in contextMemory : r.importance \in 1..10
  /\ \A c \in Callers :
       call[c].pc = "rec_inserted" =>
         \A r \in contextMemory :
            r.id = call[c].id =>
              LET arg == call[c].importance
              IN /\ arg = <<>> => r.importance = 1
                 /\ arg # <<>> =>
                      /\ arg[1] < 1 => r.importance = 1
                      /\ arg[1] > 10 => r.importance = 10
                      /\ arg[1] \in 1..10 => r.importance = arg[1]

\* 99 has just been stored as 10, beside a row stored with importance 1
C5_Witness ==
  \E c \in Callers :
     /\ call[c].pc = "rec_inserted"
     /\ call[c].importance = <<99>>
     /\ \E r \in contextMemory : r.id = call[c].id /\ r.importance = 10
     /\ \E r \in contextMemory : r.importance = 1

(***************************************************************************)
(* What a result says of the message it was computed for: the scoring      *)
(* features its reasoning reports, and whether the advisory reply of the   *)
(* call carried a penalty (an object whose isDirectQuestion is falsy).     *)
(***************************************************************************)
Notes(result) == SeqToSet(result.reasoning)

featuresOf(result) ==
  {f \in {"pattern", "related", "reference", "temporal", "question"} :
     \/ f = "pattern" /\ PatternNote \in Notes(result)
     \/ f = "related" /\ result.relatedResponses # <<>>
     \/ f = "reference" /\ ReferenceNote \in Notes(result)
     \/ f = "temporal" /\ TemporalNote \in Notes(result)
     \/ f = "question" /\ QuestionNote \in Notes(result)}

AdvisoryDisagrees(d) ==
  /\ d.reply # <<>>
  /\ d.reply[1].kind = "object"
  /\ ~Truthy(d.reply[1].isDirectQuestion)

\* every result detectDirectQuestion has for the messages, stores and
\* advisory replies of SpecDetect
RuleScores ==
  {scoreRules(m, recentOf(s.aiResponses, "U1", Omitted, DetectNow, 10),
              recentOf(s.contextMemory, "U1", Omitted, DetectNow, 5),
              DetectNow) : m \in Messages, s \in DetectStores}

Outcomes ==
  {[reply |-> <<r>>,
    result |-> detectionResult(combineOpenAI(rs, performOpenAIAnalysis(r)))] :
     rs \in RuleScores, r \in AdvisoryReplies}
  \cup {[reply |-> <<>>, result |-> fallbackResult(m)] : m \in Messages}

(***************************************************************************)
(* C6: the confidence detectDirectQuestion returns is within 0..10, on the *)
(* normal and on the fallback path, whatever the advisory call yields.     *)
(***************************************************************************)
C6_ConfidenceInRange ==
  \A c \in Callers :
     ret[c].op = "detectDirectQuestion" =>
        ret[c].val.confidence >= 0 /\ ret[c].val.confidence <= 10

C8_Monotone ==
  detection # <<>> =>
     LET d == detection[1]
     IN \A t \in Outcomes :
           ( /\ t.reply = d.reply
             /\ featuresOf(d.result) \subseteq featuresOf(t.result)
             /\ Cardinality(featuresOf(t.result) \ featuresOf(d.result)) = 1 )
           => /\ t.result.confidence >= d.result.confidence
              /\ d.result.isDirectQuestion => t.result.isDirectQuestion

\* a result with four features, capped at 10, beside one with all five; each
\* of the 32 combinations of features occurs among the outcomes
C8_Witness ==
  /\ detection # <<>>
  /\ featuresOf(detection[1].result) =
       {"pattern", "related", "reference", "question"}
  /\ detection[1].result.confidence = 10
  /\ \E t \in Outcomes :
        /\ t.reply = detection[1].reply
        /\ Cardinality(featuresOf(t.result)) = 5
  /\ Cardinality({featuresOf(t.result) : t \in Outcomes}) = 32

(***************************************************************************)
(* C9: when the selects fail, detectDirectQuestion returns a result whose  *)
(* confidence is 4 for a pattern match plus 1 for a temporal indicator     *)
(* plus 1 for the question format of the message, with no related          *)
(* responses, no advisory call made, and the fallback note closing the     *)
(* reasoning.                                                              *)
(***************************************************************************)
C9_Fallback ==
  (detection # <<>> /\ ~detection[1].storage) =>
     LET d == detection[1]
         result == d.result
         score == Add(matchesDirectQuestionPattern(d.currentMessage), 4)
                  + Add(hasTemporalIndicators(d.currentMessage), 1)
                  + Add(isQuestionFormat(d.currentMessage), 1)
     IN /\ \E c \in Callers : ret[c] = [op |-> "detectDirectQuestion",
                                        val |-> result]
        /\ result.confidence = score
        /\ result.isDirectQuestion = (score >= 5)
        /\ result.relatedResponses = <<>>
        /\ featuresOf(result) \subseteq {"pattern", "temporal", "question"}
        /\ d.openaiCalls = 0
        /\ result.reasoning[Len(result.reasoning)] = FallbackNote
        /\ ~\E i \in 1..Len(result.reasoning) :
              \E text \in {"asks about the last reply", "general conversation"} :
                 result.reasoning[i] = OpenAINote(text)

C9_Witness ==
  /\ detection # <<>>
  /\ ~detection[1].storage
  /\ detection[1].currentMessage = "what just happened?"
  /\ detection[1].result.confidence = 6
  /\ detection[1].result.isDirectQuestion
  /\ detection[1].result.reasoning =
       <<PatternNote, TemporalNote, QuestionNote, FallbackNote>>

(***************************************************************************)
(* C10: when the advisory call rejects, or its reply is empty, does not    *)
(* parse, or parses without a boolean isDirectQuestion, the result is the  *)
(* one of the rule-based terms alone: their sum capped at 10, a direct     *)
(* question from 5 on.                                                     *)
(***************************************************************************)
C10_AdvisoryDropped ==
  (detection # <<>> /\ detection[1].storage) =>
     LET d == detection[1]
         reply == d.reply[1]
         rules == d.rules[1]
     IN (reply.kind # "object" \/ reply.isDirectQuestion.type # "boolean")
        => /\ d.result.confidence = Min(rules.confidence, 10)
           /\ d.result.isDirectQuestion = (rules.confidence >= 5)

(***************************************************************************)
(* C11: recordEvent always returns.  When its insert fails it returns      *)
(* 'error' and context_memory is unchanged; when its insert has succeeded  *)
(* it returns the id of the row it stored, with no sweep, after a sweep    *)
(* and after a sweep that failed.                                          *)
(***************************************************************************)
C11_RecordReturns ==
  [][\A c \in Callers :
       /\ (call[c].pc = "rec_insert" /\ call'[c].pc = "idle")
            => /\ ret'[c] = [op |-> "recordEvent", val |-> "error"]
               /\ contextMemory' = contextMemory
       /\ (call[c].pc = "rec_insert" /\ call'[c].pc = "rec_inserted")
            => /\ contextMemory' \ contextMemory # {}
               /\ \A r \in contextMemory' \ contextMemory : r.id = call'[c].id
       /\ ( /\ \/ call[c].pc = "rec_inserted"
                \/ (call[c].pc = "sweep_exec" /\ call[c].from = "recordEvent")
            /\ call'[c].pc = "idle" )
            => /\ ret'[c] = [op |-> "recordEvent", val |-> call[c].id]
               /\ \E r \in contextMemory' : r.id = call[c].id]_vars

\* recordEvent has returned the id of its row after its sweep failed
C11_Witness ==
  \E c \in Callers :
     /\ call[c].pc = "idle"
     /\ ret[c].op = "recordEvent"
     /\ \E r \in contextMemory : r.id = ret[c].val
     /\ lastSweep.at # -1
     /\ ~lastSweep.ok

(***************************************************************************)
(* C12: getContextForBanter for a user with no row in context_memory       *)
(* returns '' (and returns), whatever the event type, the guild, the       *)
(* current message and the random draws.                                   *)
(***************************************************************************)
C12_EmptyForNoEvents ==
  \A c \in Callers :
     ( /\ retrieval # <<>>
       /\ retrieval[1].entry = "getContextForBanter"
       /\ ~\E r \in contextMemory : r.userId = retrieval[1].userId )
     => ret[c] = [op |-> "getContextForBanter", val |-> <<>>]

\* the call for U2, who has no row beside the rows of U1, with a current
\* message, once the static policy has decided to use context
C12_Witness ==
  /\ retrieval # <<>>
  /\ retrieval[1].entry = "getContextForBanter"
  /\ retrieval[1].userId = "U2"
  /\ contextMemory = CarStore
  /\ retrieval[1].currentMessage # Omitted
  /\ retrieval[1].storage
  /\ retrieval[1].shouldUseContext
  /\ retrieval[1].contextString = <<>>

(***************************************************************************)
(* C13: no operation surfaces a storage failure to its caller.  A step of  *)
(* getContextForBanter / getContextForDirectQuestions whose select fails   *)
(* returns the empty string, a step of cleanExpiredContext whose delete    *)
(* fails returns 0, and a failing updateContextResponse or recordResponse  *)
(* returns normally; each leaves both tables as they were.                 *)
(***************************************************************************)
C13_StorageFailureContained ==
  [][\A c \in Callers :
       /\ (\E d \in RandomDraws : GetContextSelect(c, FALSE, d, d))
            => /\ ret'[c] = [op |-> call[c].entry, val |-> <<>>]
               /\ UNCHANGED <<contextMemory, aiResponses>>
       /\ (SweepExec(c, FALSE) /\ call[c].from = "cleanExpiredContext")
            => /\ ret'[c] = [op |-> "cleanExpiredContext", val |-> 0]
               /\ UNCHANGED <<contextMemory, aiResponses>>
       /\ (\E n \in 1..MaxId, b \in BanterTexts :
             UpdateContextResponse(c, ContextId(n), b, FALSE))
            => /\ ret'[c] = [op |-> "updateContextResponse"]
               /\ UNCHANGED <<contextMemory, aiResponses>>
       /\ RecordResponseInsert(c, FALSE, 0)
            => /\ ret'[c] = [op |-> "recordResponse"]
               /\ UNCHANGED <<contextMemory, aiResponses>>]_vars

\* the select of a getContextForBanter call failed after a delete of
\* cleanExpiredContext had failed: the call returned '' although the store
\* holds rows of the user, and the expired row is still there
C13_Witness ==
  /\ retrieval # <<>>
  /\ ~retrieval[1].storage
  /\ retrieval[1].entry = "getContextForBanter"
  /\ ret["a"] = [op |-> "getContextForBanter", val |-> <<>>]
  /\ lastSweep.at = RetrieveNow
  /\ ~lastSweep.ok
  /\ Expired(contextMemory, RetrieveNow) # {}
  /\ \E r \in contextMemory : r.userId = "U1" /\ r.expiresAt > RetrieveNow

(***************************************************************************)
(* C14: with the three events of the car conversation recorded and no      *)
(* response, detectDirectQuestion on "what car was I thinking about?"      *)
(* returns isDirectQuestion = true, and its related responses are not      *)
(* empty or the string of getContextForDirectQuestions mentions the car.   *)
(***************************************************************************)
C14_CarScenario ==
  (detection # <<>> /\ detection[1].storage
     /\ detection[1].currentMessage = CarQuestion /\ contextMemory = CarStore)
  => /\ detection[1].result.isDirectQuestion
     /\ (retrieval # <<>> /\ retrieval[1].storage
           /\ retrieval[1].entry = "getContextForDirectQuestions")
        => \/ detection[1].result.relatedResponses # <<>>
           \/ \E i \in 1..Len(retrieval[1].contextString) :
                includes(retrieval[1].contextString[i], "car")

(***************************************************************************)
(* C15: in every result detectDirectQuestion returns, from analyzeMessage  *)
(* or from the catch block, isDirectQuestion holds exactly when the        *)
(* returned confidence is at least 5, and shouldAlwaysRespond holds        *)
(* exactly when isDirectQuestion holds or the confidence exceeds 7; a      *)
(* direct question is always to be responded to.                           *)
(***************************************************************************)
C15_FlagsFollowConfidence ==
  detection # <<>> =>
    LET result == detection[1].result
    IN /\ result.isDirectQuestion <=> result.confidence >= 5
       /\ result.shouldAlwaysRespond <=>
            (result.isDirectQuestion \/ result.confidence > 7)
       /\ result.isDirectQuestion => result.shouldAlwaysRespond
       /\ \A c \in Callers :
            ret[c].op = "detectDirectQuestion" => ret[c].val = result

\* analyzeMessage returned a direct question with a confidence of 5 to 7:
\* it is always responded to because it is a direct question
C15_Witness ==
  /\ detection # <<>>
  /\ detection[1].storage
  /\ detection[1].result.isDirectQuestion
  /\ detection[1].result.confidence \in 5..7
  /\ detection[1].result.shouldAlwaysRespond
  /\ ret["a"] = [op |-> "detectDirectQuestion", val |-> detection[1].result]

(***************************************************************************)
(* C16: in getContextForBanter, when there is no current message or the    *)
(* advisory call of shouldUseContextWithAI fails, the static policy is     *)
(* applied to the type of the event: for subscription, donation and raid   *)
(* the decision is to use the context.                                     *)
(***************************************************************************)
C16_StaticPolicyOnOwnKind ==
  (/\ retrieval # <<>>
   /\ retrieval[1].storage
   /\ retrieval[1].entry = "getContextForBanter"
   /\ retrieval[1].currentEventType \in {"subscription", "donation", "raid"}
   /\ retrieval[1].decidedBy \in {"shouldUseContextForEvent",
                                  "shouldUseContextWithAI catch"})
  => retrieval[1].shouldUseContext

(***************************************************************************)
(* C17: getContextForDirectQuestions gives the voice rows priority: no     *)
(* typed row is listed while a voice row of the scope with a message is    *)
(* left out, and the voice rows are listed before the typed ones; the rows *)
(* it considers are those getContextForBanter considers.                   *)
(***************************************************************************)
C17_VoicePriority ==
  (/\ retrieval # <<>>
   /\ retrieval[1].storage
   /\ retrieval[1].entry = "getContextForDirectQuestions"
   /\ retrieval[1].shouldUseContext)
  => LET listed == retrieval[1].recentMessages
         eligible ==
           {r \in SeqToSet(retrieval[1].processedContext) :
              /\ inGuild(r, retrieval[1].guildId) \/ isGlobal(r)
              /\ hasMessage(r)}
     IN /\ (\E v \in eligible : isVoice(v) /\ v \notin SeqToSet(listed))
             => \A i \in 1..Len(listed) : isVoice(listed[i])
        /\ \A i, j \in 1..Len(listed) :
             (i < j /\ isVoice(listed[j])) => isVoice(listed[i])
        /\ SeqToSet(retrieval[1].processedContext) =
             SeqToSet(recentContextOf(contextMemory, retrieval[1].userId,
                                      retrieval[1].cutoff))

(***************************************************************************)
(* C18: getContextForBanter and getContextForDirectQuestions use no row    *)
(* whose expiresAt is at or before the time of the call, swept or not, and *)
(* consider at most the 50 newest unexpired rows of the user.              *)
(***************************************************************************)
C18_UnexpiredNewestFifty ==
  (retrieval # <<>> /\ retrieval[1].storage)
  => LET considered == SeqToSet(retrieval[1].processedContext)
         used == considered \cup SeqToSet(retrieval[1].recentMessages)
                            \cup SeqToSet(retrieval[1].uniqueResponses)
         unexpired == {r \in contextMemory :
                         /\ r.userId = retrieval[1].userId
                         /\ r.expiresAt > retrieval[1].cutoff}
     IN /\ retrieval[1].cutoff = now
        /\ used \subseteq unexpired
        /\ Cardinality(considered) = Min(ContextLimit, Cardinality(unexpired))
        /\ \A r \in considered, q \in unexpired \ considered :
             q.createdAt <= r.createdAt

\* the store holds a row of the user expiring at the instant of the call and
\* one expired hours before, neither swept; the call considered the row that
\* expires a millisecond later and neither of the two
C18_Witness ==
  /\ retrieval # <<>>
  /\ retrieval[1].storage
  /\ retrieval[1].userId = "U1"
  /\ \E r \in contextMemory :
       /\ r.userId = "U1" /\ r.expiresAt = retrieval[1].cutoff
       /\ r \notin SeqToSet(retrieval[1].processedContext)
  /\ \E r \in contextMemory :
       /\ r.userId = "U1" /\ r.expiresAt < retrieval[1].cutoff
       /\ r \notin SeqToSet(retrieval[1].processedContext)
  /\ \E r \in SeqToSet(retrieval[1].recentMessages) :
       r.expiresAt = retrieval[1].cutoff + 1

(***************************************************************************)
(* C19: every line of the string returned for user O and guild S comes     *)
(* from a stored row of user O whose guild is S or none, and only from     *)
(* rows of no guild when S is absent.                                      *)
(***************************************************************************)
C19_OwnerAndScope ==
  (retrieval # <<>> /\ retrieval[1].storage)
  => LET listed == SeqToSet(retrieval[1].recentMessages)
                     \cup SeqToSet(retrieval[1].uniqueResponses)
         lines == {MessageLine(r) : r \in SeqToSet(retrieval[1].recentMessages)}
                    \cup {ResponseLine(r) :
                            r \in SeqToSet(retrieval[1].uniqueResponses)}
         fixed == {"Recent conversation:", "Previous response example:", "",
                   InstructionLine}
     IN /\ listed \subseteq contextMemory
        /\ \A r \in listed :
             /\ r.userId = retrieval[1].userId
             /\ \/ Falsy(r.guildId)
                \/ (~Falsy(retrieval[1].guildId)
                      /\ r.guildId = retrieval[1].guildId)
        /\ SeqToSet(retrieval[1].contextString) \subseteq lines \cup fixed
        /\ \A c \in Callers :
             ret[c].op = retrieval[1].entry
               => ret[c].val = retrieval[1].contextString

\* the string for U1 in guild G1 lists the row of G1 and the row of no
\* guild, while the store holds a row of U1 in G2 and rows of U2 in G1 and
\* in no guild
C19_Witness ==
  /\ retrieval # <<>>
  /\ retrieval[1].storage
  /\ retrieval[1].userId = "U1"
  /\ retrieval[1].guildId = "G1"
  /\ \E r \in SeqToSet(retrieval[1].recentMessages) : r.guildId = "G1"
  /\ \E r \in SeqToSet(retrieval[1].recentMessages) : Falsy(r.guildId)
  /\ \E r \in contextMemory :
       r.userId = "U1" /\ r.guildId = "G2" /\ r.expiresAt > now
  /\ \E r \in contextMemory : r.userId = "U2" /\ r.guildId = "G1"
  /\ \E r \in contextMemory : r.userId = "U2" /\ Falsy(r.guildId)
  /\ "- message in guild one" \in SeqToSet(ret["a"].val)

(***************************************************************************)
(* C20: the string getContextForBanter returns is bounded: at most 3       *)
(* lines under 'Recent conversation:', each the first 100 characters at    *)
(* most of the message, longer than 5 characters, of one of the 4 newest   *)
(* rows in scope; and at most 1 line under 'Previous response example:',   *)
(* the first 80 characters at most of the response, longer than 10         *)
(* characters, of one of the 2 newest rows in scope of the event type.     *)
(***************************************************************************)
C20_BoundedString ==
  (/\ retrieval # <<>>
   /\ retrieval[1].storage
   /\ retrieval[1].entry = "getContextForBanter")
  => LET q == retrieval[1]
         inScope == {r \in contextMemory :
                       /\ r.userId = q.userId
                       /\ r.expiresAt > q.cutoff
                       /\ Falsy(r.guildId) \/ (~Falsy(q.guildId)
                                                 /\ r.guildId = q.guildId)}
         sameType == {r \in inScope : r.eventType = q.currentEventType}
         newer(rows, r) == {o \in rows : o.createdAt > r.createdAt}
         messageLines ==
           [i \in 1..Len(q.recentMessages) |->
              LET text == q.recentMessages[i].originalMessage
              IN "- " \o SubSeq(text, 1, Min(100, Len(text)))]
         responseLines ==
           [i \in 1..Len(q.uniqueResponses) |->
              LET text == q.uniqueResponses[i].banterResponse
              IN "- \"" \o SubSeq(text, 1, Min(80, Len(text))) \o "\""]
         body ==
           (IF messageLines = <<>> THEN <<>>
            ELSE <<"Recent conversation:">> \o messageLines \o <<"">>)
           \o (IF responseLines = <<>> THEN <<>>
               ELSE <<"Previous response example:">> \o responseLines
                    \o <<"">>)
     IN /\ Len(q.recentMessages) <= 3
        /\ Len(q.uniqueResponses) <= 1
        /\ \A i \in 1..Len(q.recentMessages) :
             /\ q.recentMessages[i] \in inScope
             /\ Cardinality(newer(inScope, q.recentMessages[i])) < 4
             /\ Len(q.recentMessages[i].originalMessage) > 5
             /\ Len(messageLines[i]) <= 100 + 2
        /\ \A i \in 1..Len(q.uniqueResponses) :
             /\ q.uniqueResponses[i] \in sameType
             /\ Cardinality(newer(sameType, q.uniqueResponses[i])) < 2
             /\ Len(q.uniqueResponses[i].banterResponse) > 10
             /\ Len(responseLines[i]) <= 80 + 4
        /\ q.contextString =
             IF body = <<>> THEN <<>> ELSE Append(body, InstructionLine)
        /\ \A c \in Callers :
             ret[c].op = q.entry => ret[c].val = q.contextString

\* the string lists the first 100 characters of a longer message and the
\* first 80 of a longer response, and leaves out the newest row, whose
\* message has 5 characters
C20_Witness ==
  /\ retrieval # <<>>
  /\ retrieval[1].storage
  /\ retrieval[1].entry = "getContextForBanter"
  /\ contextMemory = LengthStore
  /\ \E i \in 1..Len(ret["a"].val) :
       /\ Len(ret["a"].val[i]) = 100 + 2
       /\ ret["a"].val[i] = "- " \o SubSeq(LongMessage, 1, 100)
  /\ \E i \in 1..Len(ret["a"].val) :
       /\ Len(ret["a"].val[i]) = 80 + 4
       /\ ret["a"].val[i] = "- \"" \o SubSeq(LongResponse, 1, 80) \o "\""
  /\ Len(LongMessage) > 100
  /\ Len(LongResponse) > 80
  /\ \A i \in 1..Len(ret["a"].val) : ~includes(ret["a"].val[i], "hi!!!")

(***************************************************************************)
(* C21: the string getContextForBanter returns is empty, or it holds the   *)
(* 'Recent conversation:' section, the 'Previous response example:'        *)
(* section or both, and then, as its last line and nowhere else, the       *)
(* instruction; it is empty whenever no row qualified for either section.  *)
(***************************************************************************)
C21_InstructionNeverAlone ==
  (/\ retrieval # <<>>
   /\ retrieval[1].storage
   /\ retrieval[1].entry = "getContextForBanter")
  => LET s == ret["a"].val
         headings == {"Recent conversation:", "Previous response example:"}
     IN /\ ret["a"].op = "getContextForBanter"
        /\ \/ s = <<>>
           \/ /\ s[1] \in headings
              /\ s[Len(s)] = InstructionLine
              /\ \A i \in 1..(Len(s) - 1) : s[i] # InstructionLine
              /\ Len(s) >= 4
        /\ ("Recent conversation:" \in SeqToSet(s))
             <=> retrieval[1].recentMessages # <<>>
        /\ ("Previous response example:" \in SeqToSet(s))
             <=> retrieval[1].uniqueResponses # <<>>
        /\ (retrieval[1].recentMessages = <<>>
              /\ retrieval[1].uniqueResponses = <<>>) => s = <<>>

\* the decision was to use the context for a discord_message and two rows
\* of the user are in scope, but neither has a message of more than 5
\* characters and the one of the type has a response of 6: the string is
\* empty
C21_Witness ==
  /\ retrieval # <<>>
  /\ retrieval[1].storage
  /\ retrieval[1].entry = "getContextForBanter"
  /\ retrieval[1].shouldUseContext
  /\ retrieval[1].currentEventType = "discord_message"
  /\ contextMemory = QuietStore
  /\ Len(retrieval[1].processedContext) = 2
  /\ Falsy(retrieval[1].guildId)
  /\ ret["a"] = [op |-> "getContextForBanter", val |-> <<>>]

(***************************************************************************)
(* C22: once a response has been attached to a context_memory row, no step *)
(* changes the row: it stays as it is until a sweep deletes it.            *)
(***************************************************************************)
C22_AttachedOnce ==
  [][\A r \in contextMemory :
       r.banterResponse # Null =>
         \A q \in contextMemory' : q.id = r.id => q = r]_vars

(***************************************************************************)
(* C23: a response is attached to the event it was generated for: every    *)
(* row carries no response or the one of its own event, also when flows of *)
(* one user, event type and guild interleave and write back through        *)
(* recordBanterSuccess.                                                    *)
(***************************************************************************)
C23_OwnResponse ==
  \A r \in contextMemory :
    r.banterResponse # Null =>
      \E n \in 1..MaxId :
        r.id = ContextId(n) /\ r.banterResponse = BanterFor(n)

(***************************************************************************)
(* C24: with recordEvent and cleanExpiredContext of independent callers    *)
(* interleaved in any way, a row leaves context_memory only in the delete  *)
(* of a sweep whose time is later than the row's expiresAt; a row inserted *)
(* after the sweep took its time, unexpired when inserted, survives that   *)
(* sweep; and an insert adds its row and removes none.                     *)
(***************************************************************************)
C24_SweepRaceBenign ==
  [][/\ \A r \in contextMemory \ contextMemory' :
          \E c \in RaceCallers :
             /\ call[c].pc = "sweep_exec" /\ call'[c].pc = "idle"
             /\ r.expiresAt < call[c].cutoff
     /\ \A c \in RaceCallers :
          (call[c].pc = "sweep_exec" /\ call'[c].pc = "idle") =>
            \A r \in contextMemory :
               (r.createdAt >= call[c].cutoff /\ r.expiresAt > r.createdAt)
                 => r \in contextMemory'
     /\ \A c \in RaceCallers :
          (call[c].pc = "rec_insert" /\ call'[c].pc = "rec_inserted") =>
            /\ contextMemory \subseteq contextMemory'
            /\ \E r \in contextMemory' \ contextMemory :
                 /\ r.id = call'[c].id
                 /\ r.expiresAt = call[c].expiresAt
                 /\ contextMemory' = contextMemory \cup {r}]_vars

\* a sweep has just deleted an expired row and kept the row another caller
\* inserted after the sweep had taken its time
C24_Witness ==
  /\ lastSweep.ok
  /\ lastSweep.count = 1
  /\ Cardinality(contextMemory) = 1
  /\ \A r \in contextMemory :
       r.createdAt >= lastSweep.at /\ r.expiresAt > lastSweep.at
  /\ \E c \in RaceCallers : ret[c] = [op |-> "cleanExpiredContext", val |-> 1]

(***************************************************************************)
(* C25: with the selects succeeding, the confidence detectDirectQuestion   *)
(* returns is 4 for a pattern match + 3 for related responses + 2 for a    *)
(* specific reference + 1 for a temporal indicator + 1 for the question    *)
(* format + the advisory term (3 when the reply says it is a direct        *)
(* question, -2 when it says it is not, 0 when the call fails), clamped    *)
(* to 0..10.                                                               *)
(***************************************************************************)
C25_ScoreFormula ==
  (/\ detection # <<>>
   /\ detection[1].storage
   /\ detection[1].reply[1] \in {[kind |-> "rejects"],
                                 JsonObject(JsTrue, "asks about the last reply"),
                                 JsonObject(JsFalse, "general conversation")})
  => LET d == detection[1]
         result == d.result
         advisory == IF d.reply[1].kind = "rejects" THEN 0
                     ELSE IF d.reply[1].isDirectQuestion = JsTrue THEN 3
                          ELSE -2
         sum == Add(matchesDirectQuestionPattern(d.currentMessage), 4)
                + Add(result.relatedResponses # <<>>, 3)
                + Add(ReferenceNote \in Notes(result), 2)
                + Add(hasTemporalIndicators(d.currentMessage), 1)
                + Add(isQuestionFormat(d.currentMessage), 1)
                + advisory
     IN result.confidence = Max(0, Min(10, sum))

(***************************************************************************)
(* SpecAmortized: recordEvent called for ever.  The table of a service     *)
(* that keeps recording holds more rows than any bound: the rows recorded  *)
(* after the MaxId-th are kept under the name of the MaxId-th, since the   *)
(* delete of cleanExpiredContext reads expires_at alone.                   *)
(***************************************************************************)
RecordBeginSteady(c, userId, eventType, guildId, importance, originalMessage) ==
  /\ call[c].pc = "idle"
  /\ call' = [call EXCEPT ![c] =
        [pc |-> "rec_insert", userId |-> userId, eventType |-> eventType,
         guildId |-> guildId, importance |-> importance,
         originalMessage |-> originalMessage,
         expiresAt |-> now + hoursToRetain * HourMs]]
  /\ UNCHANGED <<now, contextMemory, aiResponses, nextCtxId, nextRespId, ret,
                 lastSweep, detection,
                 retrieval, voiceVars>>

RecordInsertSteady(c, ok) ==
  /\ call[c].pc = "rec_insert"
  /\ IF ok
     THEN /\ contextMemory' = contextMemory \cup
               {[id |-> ContextId(nextCtxId),
                 userId |-> call[c].userId,
                 guildId |-> OrNull(call[c].guildId),
                 eventType |-> call[c].eventType,
                 eventData |-> NoEventData,
                 originalMessage |-> OrNull(call[c].originalMessage),
                 banterResponse |-> Null,
                 importance |->
                   ClampImportance(DefaultImportance(call[c].importance)),
                 createdAt |-> now,
                 expiresAt |-> call[c].expiresAt]}
          /\ nextCtxId' = Min(nextCtxId + 1, MaxId)
          /\ call' = [call EXCEPT ![c] =
                [pc |-> "rec_inserted", id |-> ContextId(nextCtxId),
                 importance |-> call[c].importance]]
          /\ ret' = ret
          /\ lastSweep' = NoSweep
     ELSE /\ call' = [call EXCEPT ![c] = Idle]
          /\ ret' = [ret EXCEPT ![c] = [op |-> "recordEvent", val |-> "error"]]
          /\ UNCHANGED <<contextMemory, nextCtxId, lastSweep>>
  /\ UNCHANGED <<now, aiResponses, nextRespId, detection,
                 retrieval, voiceVars>>

NextAmortized ==
  \/ \E c \in Callers, u \in Users, e \in EventTypes, g \in Guilds,
        t \in Texts : RecordBeginSteady(c, u, e, g, <<>>, t)
  \/ \E c \in Callers, ok \in BOOLEAN : RecordInsertSteady(c, ok)
  \/ \E c \in Callers, rnd \in BOOLEAN : RecordAfterInsert(c, rnd)
  \/ \E c \in Callers, ok \in BOOLEAN : SweepExec(c, ok)
  \/ Tick(hoursToRetain * HourMs)

\* recordEvent keeps being called, its inserts keep succeeding and
\* Math.random() < 0.1 comes out true again and again; the awaited delete
\* resolves, one way or the other
FairAmortized ==
  /\ WF_vars(\E c \in Callers, u \in Users, e \in EventTypes, g \in Guilds,
                t \in Texts : RecordBeginSteady(c, u, e, g, <<>>, t))
  /\ SF_vars(\E c \in Callers : RecordInsertSteady(c, TRUE))
  /\ SF_vars(\E c \in Callers : RecordAfterInsert(c, TRUE))
  /\ WF_vars(\E c \in Callers, ok \in BOOLEAN : SweepExec(c, ok))

SpecAmortized == Init /\ [][NextAmortized]_vars /\ FairAmortized

\* the values of expiresAt the rows of SpecAmortized carry
ExpiryTimes == {k * hoursToRetain * HourMs : k \in 1..(MaxWindows + 1)}

RowsExpiringAt(t) == {r \in contextMemory : r.expiresAt = t}

MaxBuffer == 30     \* characters the transcription buffer is let grow to

WakeWord == "hey banter"
ChunksPerTranscription == 30
VoiceImportance == 3
VoiceCallers == {"a", "b"}
VoiceGuilds == {"G1"}
Utterances == {"Hey Banter", "banter hey", "what time is it? "}
\* what transcribeAudio resolves to: response.text, or null when Whisper fails
Transcriptions == Utterances \cup {"", Null}

\* transcription.toLowerCase().includes('hey banter'), worked out once for
\* each utterance
WakeWordIn == [m \in Utterances |-> includes(toLowerCase(m), WakeWord)]

hasWakeWord(message) == WakeWordIn[message]

endsSentence(message) ==
  includes(message, ".") \/ includes(message, "?") \/ includes(message, "!")

AwaitStore(entry, transcription, userId, guildId, isWakeWord, reset) ==
  [pc |-> "voice_store", entry |-> entry, transcription |-> transcription,
   userId |-> userId, guildId |-> guildId, isWakeWord |-> isWakeWord,
   reset |-> reset]

\* the branches on the wake word, up to the await on storeVoiceContext or,
\* when nothing is stored, to the return
Heard(c, entry, userId, guildId, message) ==
  /\ Len(transcriptionBuffer) + 1 + Len(message) <= MaxBuffer
  /\ IF hasWakeWord(message)
     THEN /\ wakeWordDetected' = TRUE
          /\ transcriptionBuffer' = ""
          /\ call' = [call EXCEPT ![c] =
                AwaitStore(entry, message, userId, guildId, TRUE, FALSE)]
     ELSE IF wakeWordDetected
     THEN /\ wakeWordDetected' = wakeWordDetected
          /\ transcriptionBuffer' = transcriptionBuffer \o " " \o message
          /\ IF endsSentence(message)
             THEN /\ call' = [call EXCEPT ![c] =
                        AwaitStore(entry, trim(transcriptionBuffer'), userId,
                                   guildId, FALSE, TRUE)]
             ELSE /\ call' = [call EXCEPT ![c] = Idle]
     ELSE /\ UNCHANGED <<wakeWordDetected, transcriptionBuffer>>
          /\ call' = [call EXCEPT ![c] =
                AwaitStore(entry, message, userId, guildId, FALSE, FALSE)]

SimulateVoiceActivity(c, userId, guildId, message) ==
  /\ call[c].pc = "idle"
  /\ nextCtxId <= MaxId
  /\ Heard(c, "simulateVoiceActivity", userId, guildId, message)
  /\ UNCHANGED <<now, contextMemory, aiResponses, nextCtxId, nextRespId,
                 ret, lastSweep, detection, retrieval,
                 audioBuffer>>

\* processAudio, up to its await on transcribeAudio: a chunk is pushed, and
\* with 30 chunks held they are taken out for transcription
ProcessAudio(c, userId, guildId) ==
  /\ call[c].pc = "idle"
  /\ nextCtxId <= MaxId
  /\ IF audioBuffer + 1 >= ChunksPerTranscription
     THEN /\ audioBuffer' = 0
          /\ call' = [call EXCEPT ![c] =
                [pc |-> "voice_transcribe", userId |-> userId,
                 guildId |-> guildId]]
     ELSE /\ audioBuffer' = audioBuffer + 1
          /\ call' = call
  /\ UNCHANGED <<now, contextMemory, aiResponses, nextCtxId, nextRespId,
                 ret, lastSweep, detection, retrieval,
                 wakeWordDetected,
                 transcriptionBuffer>>

\* transcribeAudio resolves
Transcribed(c, transcription) ==
  /\ call[c].pc = "voice_transcribe"
  /\ IF Falsy(transcription)
     THEN /\ call' = [call EXCEPT ![c] = Idle]
          /\ UNCHANGED <<wakeWordDetected, transcriptionBuffer>>
     ELSE Heard(c, "processAudio", call[c].userId, call[c].guildId,
                transcription)
  /\ UNCHANGED <<now, contextMemory, aiResponses, nextCtxId, nextRespId,
                 ret, lastSweep, detection, retrieval,
                 audioBuffer>>

\* the row recordEvent inserts for storeVoiceContext
VoiceRow(id, userId, guildId, transcription, isWakeWord, at) ==
  [id |-> id, userId |-> userId, guildId |-> OrNull(guildId),
   eventType |-> "voice_message",
   eventData |-> [source |-> "voice", isWakeWord |-> isWakeWord],
   originalMessage |-> OrNull(transcription), banterResponse |-> Null,
   importance |-> ClampImportance(VoiceImportance), createdAt |-> at,
   expiresAt |-> at + hoursToRetain * HourMs]

(***************************************************************************)
(* The awaited storeVoiceContext resolves: recordEvent has inserted the    *)
(* row (and, with Math.random() < 0.1, cleaned the expired rows), or a     *)
(* statement failed and the failure was caught and logged.  The call then  *)
(* goes on: after a sentence end it clears the wake flag and the buffer.   *)
(***************************************************************************)
StoreVoiceContext(c, ok, rnd) ==
  /\ call[c].pc = "voice_store"
  /\ IF ok
     THEN LET inserted ==
                contextMemory \cup
                  {VoiceRow(ContextId(nextCtxId), call[c].userId,
                            call[c].guildId, call[c].transcription,
                            call[c].isWakeWord, now)}
          IN /\ contextMemory' =
                  IF rnd THEN inserted \ Expired(inserted, now) ELSE inserted
             /\ nextCtxId' = nextCtxId + 1
     ELSE UNCHANGED <<contextMemory, nextCtxId>>
  /\ IF call[c].reset
     THEN /\ wakeWordDetected' = FALSE
          /\ transcriptionBuffer' = ""
     ELSE UNCHANGED <<wakeWordDetected, transcriptionBuffer>>
  /\ call' = [call EXCEPT ![c] = Idle]
  /\ lastSweep' = NoSweep
  /\ UNCHANGED <<now, aiResponses, nextRespId, ret, detection, retrieval,
                 audioBuffer>>

InitVoice ==
  /\ now = 0
  /\ contextMemory = {}
  /\ aiResponses = {}
  /\ nextCtxId = 1
  /\ nextRespId = 1
  /\ call = [c \in VoiceCallers |-> Idle]
  /\ ret = [c \in VoiceCallers |-> NoReturn]
  /\ lastSweep = NoSweep
  /\ detection = <<>>
  /\ retrieval = <<>>
  /\ wakeWordDetected = FALSE
  /\ transcriptionBuffer = ""
  /\ audioBuffer = 0

NextVoice ==
  \/ \E c \in VoiceCallers, u \in Users, g \in VoiceGuilds,
        m \in Utterances : SimulateVoiceActivity(c, u, g, m)
  \/ \E c \in VoiceCallers, u \in Users, g \in VoiceGuilds :
        ProcessAudio(c, u, g)
  \/ \E c \in VoiceCallers, t \in Transcriptions : Transcribed(c, t)
  \/ \E c \in VoiceCallers, ok \in BOOLEAN, rnd \in BOOLEAN :
        StoreVoiceContext(c, ok, rnd)

SpecVoice == InitVoice /\ [][NextVoice]_vars

\* t is s without its leading and trailing whitespace (String.prototype.trim)
IsTrimmed(t, s) ==
  /\ t # ""
  /\ ~IsSpace(CharAt(t, 1))
  /\ ~IsSpace(CharAt(t, Len(t)))
  /\ \E i \in 1..Len(s) :
        /\ SubSeq(s, i, i + Len(t) - 1) = t
        /\ \A k \in (1..Len(s)) \ (i..(i + Len(t) - 1)) : IsSpace(CharAt(s, k))

\* a call takes up an utterance without the wake word while the wake flag
\* is set: the utterance is appended to the buffer and nothing is stored;
\* the call returns unless the utterance ends a sentence, and then it goes
\* on to store the trimmed buffer
SpeechCollected(c, message) ==
  (/\ wakeWordDetected
   /\ ~hasWakeWord(message)
   /\ \/ \E u \in Users, g \in VoiceGuilds :
            SimulateVoiceActivity(c, u, g, message)
      \/ Transcribed(c, message))
  => /\ transcriptionBuffer' = transcriptionBuffer \o " " \o message
     /\ wakeWordDetected'
     /\ contextMemory' = contextMemory
     /\ IF endsSentence(message)
        THEN /\ call'[c].pc = "voice_store"
             /\ call'[c].reset
             /\ ~call'[c].isWakeWord
             /\ IsTrimmed(call'[c].transcription, transcriptionBuffer')
        ELSE call'[c].pc = "idle"

(***************************************************************************)
(* C27: once the wake word is heard, an utterance without it is appended   *)
(* to the transcription buffer and not stored; when one holds '.', '?' or  *)
(* '!' exactly one context event with the whole trimmed speech is          *)
(* recorded, and the wake flag and the buffer are reset.  The buffer is    *)
(* empty whenever the wake flag is off: at the start and after every      *)
(* step.                                                                   *)
(***************************************************************************)
C27_WakeSession ==
  /\ (~wakeWordDetected => transcriptionBuffer = "")
  /\ [][/\ ~wakeWordDetected' => transcriptionBuffer' = ""
        /\ \A c \in VoiceCallers :
          /\ \A m \in Utterances : SpeechCollected(c, m)
          /\ (call[c].pc = "voice_store" /\ call[c].reset
              /\ \E ok \in BOOLEAN, rnd \in BOOLEAN :
                    StoreVoiceContext(c, ok, rnd))
             => /\ \E r \in contextMemory' \ contextMemory :
                      /\ contextMemory' = contextMemory \cup {r}
                      /\ r.eventType = "voice_message"
                      /\ r.originalMessage = call[c].transcription
                /\ ~wakeWordDetected'
                /\ transcriptionBuffer' = ""]_vars

\* C27, the event being recorded when recordEvent succeeds: when it fails
\* nothing is recorded, and the flag and the buffer are reset all the same
C27_WakeSessionBestEffort ==
  /\ (~wakeWordDetected => transcriptionBuffer = "")
  /\ [][/\ ~wakeWordDetected' => transcriptionBuffer' = ""
        /\ \A c \in VoiceCallers :
          /\ \A m \in Utterances : SpeechCollected(c, m)
          /\ \A ok \in BOOLEAN :
               (call[c].pc = "voice_store" /\ call[c].reset
                /\ \E rnd \in BOOLEAN : StoreVoiceContext(c, ok, rnd))
               => /\ IF ok
                     THEN \E r \in contextMemory' \ contextMemory :
                             /\ contextMemory' = contextMemory \cup {r}
                             /\ r.eventType = "voice_message"
                             /\ r.originalMessage = call[c].transcription
                     ELSE contextMemory' = contextMemory
                  /\ ~wakeWordDetected'
                  /\ transcriptionBuffer' = ""]_vars

\* the speech of two utterances after the wake word has been recorded as one
\* event, and the session is over
C27_Witness ==
  /\ ~wakeWordDetected
  /\ transcriptionBuffer = ""
  /\ \E w \in contextMemory, r \in contextMemory :
        /\ w.eventData.isWakeWord
        /\ ~r.eventData.isWakeWord
        /\ r.originalMessage = "banter hey what time is it?"

(***************************************************************************)
(* C28: with the selects succeeding, every loaded response that is less    *)
(* than an hour old or answered a direct question is among the related     *)
(* responses, whatever the message says; the related-response term of 3    *)
(* is then part of the rule-based score.                                   *)
(***************************************************************************)
C28_RecencyAloneRelates ==
  (detection # <<>> /\ detection[1].storage)
  => \A u \in Users, g \in Guilds :
       LET d == detection[1]
           result == d.result
           loaded == SeqToSet(recentOf(aiResponses, u, g, now, 10))
           qualifying == {r \in loaded : \/ now - r.createdAt < HourMs
                                         \/ r.wasDirectQuestion}
       IN qualifying # {}
          => /\ qualifying \subseteq SeqToSet(result.relatedResponses)
             /\ RelatedNote(Len(result.relatedResponses)) \in Notes(result)
             /\ d.rules[1].confidence =
                  Add(matchesDirectQuestionPattern(d.currentMessage), 4)
                  + 3
                  + Add(ReferenceNote \in Notes(result), 2)
                  + Add(hasTemporalIndicators(d.currentMessage), 1)
                  + Add(isQuestionFormat(d.currentMessage), 1)

\* "hello there" shares no word with the one response loaded, which is ten
\* minutes old and answered no direct question: it is related all the same
C28_Witness ==
  /\ detection # <<>>
  /\ detection[1].storage
  /\ detection[1].currentMessage = "hello there"
  /\ \E r \in aiResponses :
        /\ aiResponses = {r}
        /\ ~r.wasDirectQuestion
        /\ now - r.createdAt < HourMs
        /\ detection[1].result.relatedResponses = <<r>>
  /\ detection[1].rules[1].confidence = 3

(***************************************************************************)
(* C29: when the selects fail, the confidence returned is at most 6, and   *)
(* isDirectQuestion and shouldAlwaysRespond are true exactly for a message *)
(* that matches a direct-question pattern and also has a temporal          *)
(* indicator or ends with '?'; without a pattern match the message is no   *)
(* direct question.                                                        *)
(***************************************************************************)
C29_FallbackFlags ==
  (detection # <<>> /\ ~detection[1].storage)
  => LET message == detection[1].currentMessage
         result == detection[1].result
         pattern == matchesDirectQuestionPattern(message)
         direct == pattern /\ (\/ hasTemporalIndicators(message)
                               \/ isQuestionFormat(message))
     IN /\ result.confidence <= 6
        /\ result.isDirectQuestion <=> direct
        /\ result.shouldAlwaysRespond <=> direct
        /\ ~pattern => ~result.isDirectQuestion
        /\ \A c \in Callers :
             ret[c].op = "detectDirectQuestion" => ret[c].val = result

\* a pattern match with a temporal indicator and no question mark is a
\* direct question in fallback mode
C29_Witness ==
  /\ detection # <<>>
  /\ ~detection[1].storage
  /\ detection[1].currentMessage = "What just happened"
  /\ detection[1].result.confidence = 5
  /\ detection[1].result.isDirectQuestion
  /\ detection[1].result.shouldAlwaysRespond
  /\ ret["a"].val = detection[1].result

(***************************************************************************)
(* C30: updateContextResponse never throws.  With an id no row carries,    *)
(* 'error' among them, it changes no row; with the id of a row it changes  *)
(* the banterResponse of that row and nothing else.                        *)
(***************************************************************************)
C30_AttachTouchesOneField ==
  [][\A c \in Callers, n \in 1..MaxId, ok \in BOOLEAN :
       \A id \in ReturnedIds(n) :
          UpdateContextResponse(c, id, BanterFor(n), ok)
          => /\ ret'[c] = [op |-> "updateContextResponse"]
             /\ aiResponses' = aiResponses
             /\ \A r \in contextMemory : r.id # "error"
             /\ Cardinality(contextMemory') = Cardinality(contextMemory)
             /\ (\A r \in contextMemory : r.id # id)
                => contextMemory' = contextMemory
             /\ \A r \in contextMemory :
                  IF r.id = id
                  THEN \E q \in contextMemory' :
                          /\ q = [r EXCEPT !.banterResponse = q.banterResponse]
                          /\ q.banterResponse \in
                               {r.banterResponse, BanterFor(n)}
                          /\ ok => q.banterResponse = BanterFor(n)
                  ELSE r \in contextMemory']_vars

\* the response has been attached to the first of two rows, and the second
\* is as it was recorded
C30_Witness ==
  /\ ret["a"] = [op |-> "updateContextResponse"]
  /\ \E r \in contextMemory, q \in contextMemory :
        /\ r.id = ContextId(1)
        /\ r.banterResponse = BanterFor(1)
        /\ q.id = ContextId(2)
        /\ q.banterResponse = Null

====
